---------------------------- MODULE Spec2Model ----------------------------
(***************************************************************************)
(* A model of the support layer shared by the gallery-dl extractors: the   *)
(* pagination loops (page/offset, cursor token, byte range, set algebra),  *)
(* the credential cache used by the API classes, and the adaptive delay    *)
(* of the DeviantArt OAuth API.                                            *)
(*                                                                         *)
(* Every component has its own variables (prefix of_, sk_, nz_, ns_, cc_,  *)
(* da_), its own initial predicate and its own specification; a component  *)
(* that a specification does not exercise stays in its Idle valuation.     *)
(***************************************************************************)
EXTENDS Integers, Sequences, FiniteSets, TLC

VARIABLES
    \* ---- page-number pagination (moebooru.py / derpibooru.py) ----
    of_site,        \* which extractor runs the loop: "moebooru" | "derpibooru"
    of_per_page,    \* self.per_page
    of_page,        \* params["page"]
    of_pc,          \* position in _pagination: "request" | "yield" | "done" | "idle"
    of_posts,       \* posts / data["images"]: the page being yielded from
    of_pos,         \* index of the next element `yield from` delivers
    of_out,         \* the items delivered to the consumer so far
    of_requests,    \* the page numbers of the requests issued so far
    of_sizes,       \* the number of items of every page received so far
    \* ---- cursor pagination and API calls (sankaku.py) ----
    sk_has_user,    \* self.username is set (else authenticate is a no-op)
    sk_pc,          \* "call" | "auth" | "request" | "yield" | "done" | "stop"
                    \* | "auth_error" | "crash" | "idle"
    sk_attempt,     \* number of finished iterations of `for _ in range(5)`
    sk_next,        \* params["next"] (NoToken while the key is absent)
    sk_header,      \* headers["Authorization"]: 0 absent, k the k-th login's token
    sk_cache,       \* the cache entry of _authenticate_impl for self.username
    sk_auths,       \* how often the body of _authenticate_impl has run
    sk_data,        \* data["data"] of the page being yielded from
    sk_meta_next,   \* data["meta"]["next"] of that page
    sk_pos,         \* index of the next element `yield from` delivers
    sk_served,      \* number of items the backend has sent
    sk_out,         \* the items delivered to the consumer so far
    sk_pages,       \* params["next"] at every entry of _call
    sk_reqlog,      \* the HTTP requests issued, with the response of each
    sk_tokens,      \* meta.next of every successful response
    sk_now,         \* time.time()
    sk_times,       \* per HTTP request: the time it was sent
    sk_resets,      \* per HTTP request: X-RateLimit-Reset of its response
    \* ---- byte-range pagination (nozomi.py, NozomiTagExtractor) ----
    nz_total,       \* size in bytes of the .nozomi file on the server
    nz_ranged,      \* the server honours Range and sends Content-Range
    nz_i,           \* i
    nz_pc,          \* "request" | "yield" | "done" | "error" | "idle"
    nz_content,     \* response.content
    nz_cr,          \* cr: what follows the "/" of Content-Range
    nz_pos,         \* the offset decode_nozomi has reached in the content
    nz_out,         \* the identifiers delivered to the consumer so far
    nz_ranges,      \* the byte ranges requested so far
    \* ---- set-algebra search (nozomi.py, NozomiSearchExtractor) ----
    ns_files,       \* the identifiers in each .nozomi file of the server
    ns_tags,        \* self.tags
    ns_index_set,   \* index is not None
    ns_index,       \* index (when it is not None)
    ns_result,      \* result
    ns_k,           \* position of the loop in self.tags (from 1)
    ns_pc,          \* "loop" | "done" | "idle"
    ns_fetches,     \* the paths requested so far
    ns_return,      \* the list posts() returned
    \* ---- credential cache under two workers (deviantart.py) ----
    cc_now,         \* time.time()
    cc_ticks,       \* how often the clock has been advanced
    cc_calls,       \* number of authenticate() calls started
    cc_cache,       \* the entries of the cache of _authenticate_impl
    cc_flight,      \* per cache key: the worker running the body, or 0
    cc_pc,          \* per worker: "ready" | "auth" | "wait" | "idle"
    cc_key,         \* per worker: refresh_token_key of its current call
    cc_header,      \* per worker: self.headers["Authorization"] (0: unset)
    cc_last,        \* per worker: the record of its last finished call
    cc_runs,        \* the runs of the body of _authenticate_impl
    \* ---- adaptive delay of the OAuth API (deviantart.py) ----
    da_wait_min,    \* extractor.config("wait-min", 0)
    da_delay,       \* self.delay
    da_delay_min,   \* self.delay_min
    da_refresh,     \* self.refresh_token_key ("None" when there is none)
    da_pc,          \* "ready" | "sleep" | "auth" | "request" | "auth_error"
                    \* | "not_found" | "capped" | "idle"
    da_fatal,       \* the argument fatal of the current _call
    da_public,      \* the argument public of the current _call
    da_now,         \* time.time()
    da_cache,       \* the entries of the cache of _authenticate_impl
    da_auths,       \* how often the body of _authenticate_impl has run
    da_header,      \* self.headers["Authorization"] (0: unset)
    da_log,         \* per response: its kind, self.delay before and after
    da_result,      \* what the last _call returned or raised
    da_logins,      \* per run of _authenticate_impl in this job: its key,
                    \* the time, the number of API requests sent before
    \* ---- request spacing of the extractor class (deviantart.py) ----
    lr_workers,     \* the threads calling _limited_request
    lr_now,         \* time.time()
    lr_last,        \* DeviantartExtractor._last_request
    lr_pc,          \* per thread: "ready" | "sleep" | "request" | "response"
                    \* | "wait" | "off"
    lr_wake,        \* per thread: the time its sleep ends
    lr_log,         \* per request issued: thread, time, _last_request then
    lr_stamps,      \* the values assigned to _last_request, in order
    lr_blocked,     \* per thread: blocked responses of the current call
    lr_returned,    \* per response returned: thread, blocked responses before
    \* ---- the API objects of two DeviantArt extractors (deviantart.py) ----
    dj_wait_min,    \* extractor.config("wait-min", 0), one configuration
    dj_api,         \* per extractor: whether items() has created self.api
    dj_delay,       \* per extractor: self.api.delay
    dj_delay_min,   \* per extractor: self.api.delay_min
    dj_log,         \* per request: extractor, delay slept before it, kind of
                    \* the response, delay after it
    \* ---- TwitterAPI._call (twitter.py) ----
    tw_now,         \* time.time()
    tw_pc,          \* "ready" | "request" | "stop" | "http_error" | "idle"
    tw_first,       \* the request of the _call the caller made
    tw_args,        \* root, endpoint, method, params of the running _call
    tw_csrf,        \* self.headers["x-csrf-token"]
    tw_log,         \* per request: what was sent, when, the answer, its
                    \* x-rate-limit-reset
    tw_result,      \* what the last _call returned or raised
    \* ---- the event stream of one job (items() of the extractors) ----
    ev_site,        \* the extractor class whose items() runs
    ev_pc,          \* "start" | "next" | "urls" | "done" | "idle"
    ev_item,        \* number of the item (deviation, tweet, post) at hand
    ev_files,       \* number of files of the item at hand
    ev_urls,        \* how many of them have been yielded
    ev_stream,      \* the messages yielded so far, in order
    \* ---- dispatch of one Queue message ----
    qd_site,        \* the extractor class that yields the Queue message
    qd_pc,          \* "emit" | "queued" | "merged" | "idle"
    qd_extractor,   \* data["_extractor"]: the class of the nested job
    qd_seed,        \* the other keys of the metadata of the Queue message
    qd_nested,      \* the metadata the nested extractor produces
    qd_final,       \* the metadata of the nested job after the merge
    \* ---- DeviantArt _pagination, OAuth and Eclipse (deviantart.py) ----
    dp_api,         \* "oauth" | "eclipse": the API object whose _pagination runs
    dp_folders,     \* the caller is _pagination_folders
    dp_extend,      \* the parameter `extend`
    dp_refresh,     \* self.refresh_token_key is set
    dp_public,      \* the local variable `public`
    dp_limit,       \* params["limit"]
    dp_offset,      \* params["offset"]
    dp_pc,          \* "call" | "yield" | "deliver" | "done" | "stop" |
                    \* "key_error" | "idle"
    dp_data,        \* the results of the page at hand
    dp_has_more,    \* data["has_more"] of the page at hand
    dp_next_offset, \* data["next_offset"] of the page at hand
    dp_pos,         \* position of `yield from` in the page at hand
    dp_result,      \* the list _pagination_folders builds
    dp_out,         \* the items the consumer has received, in order
    dp_fetches,     \* per API request: offset, access, what the answer held,
                    \* how many items the consumer had received
    dp_log,         \* the messages of self.log.error
    \* ---- next-link pagination (paheal.py, aryion.py) ----
    nl_site,        \* "paheal" | "aryion"
    nl_url,         \* number of the page the next request asks for
    nl_pc,          \* "request" | "yield" | "done" | "idle"
    nl_page,        \* the items found in the page at hand
    nl_link,        \* the page its "Next" link leads to, NoLink without one
    nl_pos,         \* position of the yield loop in the page at hand
    nl_out,         \* the items the consumer has received, in order
    nl_fetches,     \* per request: the page asked for, how many items the
                    \* consumer had received
    \* ---- metadata of the emitted events (nozomi.py, twitter.py, paheal.py) ----
    mp_site,        \* "nozomi" | "twitter" | "paheal"
    mp_pc,          \* "metadata" | "post" | "url" | "done" | "idle"
    mp_data,        \* data = self.metadata() / self.get_metadata()
    mp_item,        \* the fields of the item at hand as the site sent them
    mp_post,        \* the dictionary yielded for the item at hand
    mp_stream,      \* the events yielded: kind, the item's own fields, the
                    \* metadata of the event
    \* ---- WebtoonsComicExtractor.items (webtoons.py) ----
    wt_page_no,     \* self.page_no
    wt_pc,          \* "request" | "yield" | "done" | "stop" | "error" | "idle"
    wt_urls,        \* the episode URLs of the page at hand
    wt_linked,      \* the page at hand holds the path of the next page
    wt_pos,         \* position of the yield loop in the page at hand
    wt_out,         \* the Queue events the consumer has received
    wt_fetches,     \* per request: the page asked for, what came back
    \* ---- TwitterAPI._pagination (twitter.py) ----
    tp_pc,          \* "request" | "yield" | "done" | "idle"
    tp_cursor,      \* params["cursor"], NoCursor before it is set
    tp_pinned,      \* the local variable pinned_tweet
    tp_tweets,      \* the tweets of the page at hand that are yielded
    tp_pos,         \* position of the yield loop in the page at hand
    tp_out,         \* the tweets the consumer has received, in order
    tp_log,         \* per request: the cursor sent and what the answer held
    \* ---- AryionExtractor.items, AryionGalleryExtractor.skip (aryion.py) ----
    ar_pc,          \* "start" | "posts" | "url" | "folder" | "queue" | "done" | "idle"
    ar_recursive,   \* self.recursive
    ar_posts,       \* what the HEAD request of each listed post answers
    ar_offset,      \* self.offset
    ar_skipped,     \* what skip() returned, NoSkip before it is called
    ar_pos,         \* position of items() in the posts
    ar_page,        \* number of the folder page at hand
    ar_entries,     \* the entries of the folder page at hand
    ar_more,        \* the folder page at hand has a "Next >>" link
    ar_epos,        \* position of the Queue loop in the page at hand
    ar_listed,      \* every folder entry the server has listed, in order
    ar_out,         \* the events the consumer has received, in order
    \* ---- DeviantartStashExtractor.deviations (deviantart.py) ----
    st_pc,          \* "request" | "yield" | "walk" | "done" | "idle"
    st_cur,         \* the stash id deviations() was called with
    st_stack,       \* the calls of deviations() that loop over their items
    st_requests,    \* per page request: the stash id, the uuid found, the sender
    st_out,         \* the deviations the consumer has received, in order
    \* ---- TwitterExtractor.items (twitter.py) ----
    ti_pc,          \* "tweets" | "urls" | "done" | "idle"
    ti_options,     \* the options retweets, replies and quoted
    ti_seen,        \* the tweets that tweets() has yielded so far
    ti_num,         \* tdata["num"]
    ti_out,         \* the events the consumer has received, in order
    \* ---- skip() and what deviations() / the posts do with it ----
    sp_pc,          \* "start" | "items" | "done" | "idle"
    sp_site,        \* "gallery" | "favourites" | "sankaku"
    sp_flat,        \* self.flat
    sp_group,       \* self.group, known once items() has read the profile
    sp_total,       \* how many items (or folders) the source holds
    sp_offset,      \* self.offset
    sp_skipped,     \* what skip() returned, NoSkip before it is called
    sp_pos,         \* position of the enumeration in the source
    sp_out,         \* the items the consumer has received, in order
    \* ---- the mappings that events carry (nozomi, webtoons, deviantart, myportfolio) ----
    al_pc,          \* "items" | "files" | "done" | "idle"
    al_site,        \* the extractor whose items() runs
    al_heap,        \* per mapping (post, data, deviation): the value of the
                    \* key that the loop writes (url, page, target, num)
    al_item,        \* the mapping at hand
    al_num,         \* files (episodes) of the mapping (page) done so far
    al_out          \* the events delivered: kind, mapping, value when delivered

ofVars == <<of_site, of_per_page, of_page, of_pc, of_posts, of_pos, of_out,
            of_requests, of_sizes>>

skVars == <<sk_has_user, sk_pc, sk_attempt, sk_next, sk_header, sk_cache,
            sk_auths, sk_data, sk_meta_next, sk_pos, sk_served, sk_out,
            sk_pages, sk_reqlog, sk_tokens,
            sk_now, sk_times, sk_resets>>

nzVars == <<nz_total, nz_ranged, nz_i, nz_pc, nz_content, nz_cr, nz_pos,
            nz_out, nz_ranges>>

nsVars == <<ns_files, ns_tags, ns_index_set, ns_index, ns_result, ns_k,
            ns_pc, ns_fetches, ns_return>>

ccVars == <<cc_now, cc_ticks, cc_calls, cc_cache, cc_flight, cc_pc, cc_key,
            cc_header, cc_last, cc_runs>>

daVars == <<da_wait_min, da_delay, da_delay_min, da_refresh, da_pc, da_fatal,
            da_public, da_now, da_cache, da_auths, da_header, da_log,
            da_result, da_logins>>

lrVars == <<lr_workers, lr_now, lr_last, lr_pc, lr_wake, lr_log, lr_stamps,
            lr_blocked, lr_returned>>

djVars == <<dj_wait_min, dj_api, dj_delay, dj_delay_min, dj_log>>

twVars == <<tw_now, tw_pc, tw_first, tw_args, tw_csrf, tw_log, tw_result>>

evVars == <<ev_site, ev_pc, ev_item, ev_files, ev_urls, ev_stream>>

qdVars == <<qd_site, qd_pc, qd_extractor, qd_seed, qd_nested, qd_final>>

dpVars == <<dp_api, dp_folders, dp_extend, dp_refresh, dp_public, dp_limit,
            dp_offset, dp_pc, dp_data, dp_has_more, dp_next_offset, dp_pos,
            dp_result, dp_out, dp_fetches, dp_log>>

nlVars == <<nl_site, nl_url, nl_pc, nl_page, nl_link, nl_pos, nl_out,
            nl_fetches>>

mpVars == <<mp_site, mp_pc, mp_data, mp_item, mp_post, mp_stream>>

wtVars == <<wt_page_no, wt_pc, wt_urls, wt_linked, wt_pos, wt_out,
            wt_fetches>>

tpVars == <<tp_pc, tp_cursor, tp_pinned, tp_tweets, tp_pos, tp_out, tp_log>>

arVars == <<ar_pc, ar_recursive, ar_posts, ar_offset, ar_skipped, ar_pos,
            ar_page, ar_entries, ar_more, ar_epos, ar_listed, ar_out>>

stVars == <<st_pc, st_cur, st_stack, st_requests, st_out>>

tiVars == <<ti_pc, ti_options, ti_seen, ti_num, ti_out>>

spVars == <<sp_pc, sp_site, sp_flat, sp_group, sp_total, sp_offset,
            sp_skipped, sp_pos, sp_out>>

alVars == <<al_pc, al_site, al_heap, al_item, al_num, al_out>>

vars == <<ofVars, skVars, nzVars, nsVars, ccVars, daVars, lrVars, djVars, twVars, evVars, qdVars, dpVars, nlVars, mpVars, wtVars, tpVars, arVars, stVars, tiVars, spVars, alVars>>

\* The variables of all components but one.
notOf == <<skVars, nzVars, nsVars, ccVars, daVars, lrVars, djVars, twVars, evVars, qdVars, dpVars, nlVars, mpVars, wtVars, tpVars, arVars, stVars, tiVars, spVars, alVars>>
notSk == <<ofVars, nzVars, nsVars, ccVars, daVars, lrVars, djVars, twVars, evVars, qdVars, dpVars, nlVars, mpVars, wtVars, tpVars, arVars, stVars, tiVars, spVars, alVars>>
notNz == <<ofVars, skVars, nsVars, ccVars, daVars, lrVars, djVars, twVars, evVars, qdVars, dpVars, nlVars, mpVars, wtVars, tpVars, arVars, stVars, tiVars, spVars, alVars>>
notNs == <<ofVars, skVars, nzVars, ccVars, daVars, lrVars, djVars, twVars, evVars, qdVars, dpVars, nlVars, mpVars, wtVars, tpVars, arVars, stVars, tiVars, spVars, alVars>>
notCc == <<ofVars, skVars, nzVars, nsVars, daVars, lrVars, djVars, twVars, evVars, qdVars, dpVars, nlVars, mpVars, wtVars, tpVars, arVars, stVars, tiVars, spVars, alVars>>
notDa == <<ofVars, skVars, nzVars, nsVars, ccVars, lrVars, djVars, twVars, evVars, qdVars, dpVars, nlVars, mpVars, wtVars, tpVars, arVars, stVars, tiVars, spVars, alVars>>
notLr == <<ofVars, skVars, nzVars, nsVars, ccVars, daVars, djVars, twVars, evVars, qdVars, dpVars, nlVars, mpVars, wtVars, tpVars, arVars, stVars, tiVars, spVars, alVars>>
notDj == <<ofVars, skVars, nzVars, nsVars, ccVars, daVars, lrVars, twVars, evVars, qdVars, dpVars, nlVars, mpVars, wtVars, tpVars, arVars, stVars, tiVars, spVars, alVars>>
notTw == <<ofVars, skVars, nzVars, nsVars, ccVars, daVars, lrVars, djVars, evVars, qdVars, dpVars, nlVars, mpVars, wtVars, tpVars, arVars, stVars, tiVars, spVars, alVars>>
notEv == <<ofVars, skVars, nzVars, nsVars, ccVars, daVars, lrVars, djVars, twVars, qdVars, dpVars, nlVars, mpVars, wtVars, tpVars, arVars, stVars, tiVars, spVars, alVars>>
notQd == <<ofVars, skVars, nzVars, nsVars, ccVars, daVars, lrVars, djVars, twVars, evVars, dpVars, nlVars, mpVars, wtVars, tpVars, arVars, stVars, tiVars, spVars, alVars>>
notDp == <<ofVars, skVars, nzVars, nsVars, ccVars, daVars, lrVars, djVars, twVars, evVars, qdVars, nlVars, mpVars, wtVars, tpVars, arVars, stVars, tiVars, spVars, alVars>>
notNl == <<ofVars, skVars, nzVars, nsVars, ccVars, daVars, lrVars, djVars, twVars, evVars, qdVars, dpVars, mpVars, wtVars, tpVars, arVars, stVars, tiVars, spVars, alVars>>
notMp == <<ofVars, skVars, nzVars, nsVars, ccVars, daVars, lrVars, djVars, twVars, evVars, qdVars, dpVars, nlVars, wtVars, tpVars, arVars, stVars, tiVars, spVars, alVars>>
notWt == <<ofVars, skVars, nzVars, nsVars, ccVars, daVars, lrVars, djVars, twVars, evVars, qdVars, dpVars, nlVars, mpVars, tpVars, arVars, stVars, tiVars, spVars, alVars>>
notTp == <<ofVars, skVars, nzVars, nsVars, ccVars, daVars, lrVars, djVars, twVars, evVars, qdVars, dpVars, nlVars, mpVars, wtVars, arVars, stVars, tiVars, spVars, alVars>>
notAr == <<ofVars, skVars, nzVars, nsVars, ccVars, daVars, lrVars, djVars, twVars, evVars, qdVars, dpVars, nlVars, mpVars, wtVars, tpVars, stVars, tiVars, spVars, alVars>>
notSt == <<ofVars, skVars, nzVars, nsVars, ccVars, daVars, lrVars, djVars, twVars, evVars, qdVars, dpVars, nlVars, mpVars, wtVars, tpVars, arVars, tiVars, spVars, alVars>>
notTi == <<ofVars, skVars, nzVars, nsVars, ccVars, daVars, lrVars, djVars, twVars, evVars, qdVars, dpVars, nlVars, mpVars, wtVars, tpVars, arVars, stVars, spVars, alVars>>
notSp == <<ofVars, skVars, nzVars, nsVars, ccVars, daVars, lrVars, djVars, twVars, evVars, qdVars, dpVars, nlVars, mpVars, wtVars, tpVars, arVars, stVars, tiVars, alVars>>
notAl == <<ofVars, skVars, nzVars, nsVars, ccVars, daVars, lrVars, djVars, twVars, evVars, qdVars, dpVars, nlVars, mpVars, wtVars, tpVars, arVars, stVars, tiVars, spVars>>

-----------------------------------------------------------------------------
(* Generic helpers *)

\* The sequence <<a, a+1, ..., b>> (empty when b < a).
Range(a, b) == [i \in 1..(b - a + 1) |-> a + i - 1]

\* The sum of a sequence of naturals.
RECURSIVE SumSeq(_)
SumSeq(s) == IF s = <<>> THEN 0 ELSE s[1] + SumSeq(Tail(s))

\* s is an initial segment of t.
\* The number of items the first k requests of a log handed to the consumer's
\* loop.
RECURSIVE Kept(_, _)
Kept(fetches, k) ==
    IF k = 0 THEN 0 ELSE Kept(fetches, k - 1) + fetches[k].kept

IsPrefix(s, t) == Len(s) <= Len(t) /\ \A i \in 1..Len(s) : s[i] = t[i]

-----------------------------------------------------------------------------
(***************************************************************************)
(* Page-number pagination: MoebooruExtractor._pagination and               *)
(* DerpibooruExtractor._pagination.                                        *)
(***************************************************************************)

\* Largest per_page value explored (the extractors use 50; the loop only
\* compares the page length with it).
MaxPerPage == 3
\* Number of pages after which the backend runs out of items.
MaxPages == 4

Sites == {"moebooru", "derpibooru"}

\* MoebooruExtractor.page_start
page_start == 1

\* First page number: Moebooru starts at page_start, Derpibooru at the literal 1.
FirstPage(site) == IF site = "moebooru" THEN page_start ELSE 1

\* The stop test after a page: len(posts) < self.per_page.
ShortPage_StopOnFull(n, per_page) == n <= per_page
ShortPage(n, per_page) == n < per_page

\* The backend's answer to one page request: `n` further items, numbered in
\* the order the backend serves them.
PageOf(served, n) == Range(served + 1, served + n)

\* The page sizes the backend may answer with: at most per_page items, and
\* fewer than per_page once MaxPages pages have been served.
PageSizes(per_page, nth) ==
    IF nth < MaxPages THEN 0..per_page ELSE 0..(per_page - 1)

OfInit ==
    /\ of_site \in Sites
    /\ of_per_page \in 1..MaxPerPage
    /\ of_page = FirstPage(of_site)
    /\ of_pc = "request"
    /\ of_posts = <<>>
    /\ of_pos = 1
    /\ of_out = <<>>
    /\ of_requests = <<>>
    /\ of_sizes = <<>>

OfIdle ==
    /\ of_site = "moebooru"
    /\ of_per_page = 1
    /\ of_page = 1
    /\ of_pc = "idle"
    /\ of_posts = <<>>
    /\ of_pos = 1
    /\ of_out = <<>>
    /\ of_requests = <<>>
    /\ of_sizes = <<>>

\* posts = self.request(url, params=params).json()
OfRequest ==
    /\ of_pc = "request"
    /\ \E n \in PageSizes(of_per_page, Len(of_requests) + 1) :
         /\ of_posts' = PageOf(SumSeq(of_sizes), n)
         /\ of_sizes' = Append(of_sizes, n)
    /\ of_requests' = Append(of_requests, of_page)
    /\ of_pos' = 1
    /\ of_pc' = "yield"
    /\ UNCHANGED <<of_site, of_per_page, of_page, of_out>>
    /\ UNCHANGED notOf

\* yield from posts: the consumer pulls one more item.
OfYield ==
    /\ of_pc = "yield"
    /\ of_pos <= Len(of_posts)
    /\ of_out' = Append(of_out, of_posts[of_pos])
    /\ of_pos' = of_pos + 1
    /\ UNCHANGED <<of_site, of_per_page, of_page, of_pc, of_posts,
                   of_requests, of_sizes>>
    /\ UNCHANGED notOf

\* The page is used up: return after a short page, else params["page"] += 1.
OfAdvance ==
    /\ of_pc = "yield"
    /\ of_pos > Len(of_posts)
    /\ IF ShortPage(Len(of_posts), of_per_page)
         THEN of_pc' = "done" /\ of_page' = of_page
         ELSE of_pc' = "request" /\ of_page' = of_page + 1
    /\ UNCHANGED <<of_site, of_per_page, of_posts, of_pos, of_out,
                   of_requests, of_sizes>>
    /\ UNCHANGED notOf

OfNext == OfRequest \/ OfYield \/ OfAdvance

-----------------------------------------------------------------------------
(***************************************************************************)
(* The credential cache: the `cache` decorator of gallery_dl/cache.py,     *)
(* which memoizes a function per key argument for maxage seconds and       *)
(* offers invalidate(key).  An entry is (value, expiry timestamp); an      *)
(* absent entry is the entry that expired at time 0.                       *)
(***************************************************************************)

NoEntry == [value |-> 0, expires |-> 0]

\* A stored entry answers calls made before its expiry timestamp.
CacheValid(entry, now) == entry.expires > now

\* The entry written after the wrapped function returned `value`.
CacheStore(value, now, maxage) == [value |-> value, expires |-> now + maxage]

\* invalidate(key): the entry of the key is dropped.
CacheInvalidate(entry) == NoEntry

-----------------------------------------------------------------------------
(***************************************************************************)
(* Cursor pagination: SankakuAPI._pagination over SankakuAPI._call, with   *)
(* SankakuAPI.authenticate and the cached _authenticate_impl.              *)
(***************************************************************************)

\* Number of HTTP requests of one enumeration that are explored.
MaxRequests == 5
\* Largest number of items in one page of the backend.
MaxPageItems == 1

\* for _ in range(5)
SkTries == 5

\* @cache(maxage=365*24*3600, keyarg=1)
SkMaxAge == 365 * 24 * 3600

\* params has no "next" key
NoToken == "absent"
\* The values of meta.next: two cursors, JSON null and the empty string.
Tokens == {"t1", "t2"}
NullToken == "null"
FalsyTokens == {NullToken, ""}

\* `if not params["next"]`
IsFalsy_OnlyNull(t) == t = NullToken
IsFalsy(t) == t \in FalsyTokens

\* The kinds of response SankakuAPI._call tells apart: status 429, a body
\* with success=false and code "invalid_token", a body with success=false
\* and another code, and a successful body.
\* time.time() when the job starts.
SkStart == 100

\* response.headers.get("X-RateLimit-Reset"): absent, or a time this many
\* seconds from the moment of the response.
NoReset == -1
ResetOffsets == {5}
Resets(now) == {NoReset} \cup {now + d : d \in ResetOffsets}

\* extractor.wait(until=until, seconds=seconds): the time at which it
\* returns.  It sleeps until the reset time when there is one, for the given
\* seconds otherwise, and not at all when it has neither.
WaitEnd_Capped(now, until, seconds) ==
    IF until # NoReset /\ until > now + 1 THEN now + 1 ELSE now
WaitEnd(now, until, seconds) ==
    IF until # NoReset THEN (IF until > now THEN until ELSE now)
    ELSE IF seconds # NoReset THEN now + seconds
    ELSE now

SkResponses == {"429", "invalid_token", "error", "ok"}

\* What _call does with the cache entry after code == "invalid_token".
SkOnInvalidToken_Keep(entry) == entry
SkOnInvalidToken(entry) == CacheInvalidate(entry)

\* The value params["next"] takes after a page: data["meta"]["next"].
SkNextParam_Stay(old, meta_next) == old
SkNextParam(old, meta_next) == meta_next

SkInit ==
    /\ sk_has_user \in BOOLEAN
    /\ sk_pc = "call"
    /\ sk_attempt = 0
    /\ sk_next = NoToken
    /\ sk_header = 0
    \* the cache outlives a run: it may hold the token of an earlier login
    /\ sk_cache \in {NoEntry, CacheStore(1, 0, SkMaxAge)}
    /\ sk_auths = sk_cache.value
    /\ sk_data = <<>>
    /\ sk_meta_next = NullToken
    /\ sk_pos = 1
    /\ sk_served = 0
    /\ sk_out = <<>>
    /\ sk_pages = <<>>
    /\ sk_reqlog = <<>>
    /\ sk_tokens = <<>>
    /\ sk_now = SkStart
    /\ sk_times = <<>>
    /\ sk_resets = <<>>

SkIdle ==
    /\ sk_has_user = FALSE
    /\ sk_pc = "idle"
    /\ sk_attempt = 0
    /\ sk_next = NoToken
    /\ sk_header = 0
    /\ sk_cache = NoEntry
    /\ sk_auths = 0
    /\ sk_data = <<>>
    /\ sk_meta_next = NullToken
    /\ sk_pos = 1
    /\ sk_served = 0
    /\ sk_out = <<>>
    /\ sk_pages = <<>>
    /\ sk_reqlog = <<>>
    /\ sk_tokens = <<>>
    /\ sk_now = SkStart
    /\ sk_times = <<>>
    /\ sk_resets = <<>>

\* data = self._call(endpoint, params): the retry loop starts.
SkCall ==
    /\ sk_pc = "call"
    /\ sk_pages' = Append(sk_pages, sk_next)
    /\ sk_attempt' = 0
    /\ sk_pc' = "auth"
    /\ UNCHANGED <<sk_has_user, sk_next, sk_header, sk_cache, sk_auths,
                   sk_data, sk_meta_next, sk_pos, sk_served, sk_out,
                   sk_reqlog, sk_tokens>>
    /\ UNCHANGED <<sk_now, sk_times, sk_resets>>
    /\ UNCHANGED notSk

\* self.authenticate() without a username: the no-op lambda of __init__.
SkAuthNoUser ==
    /\ sk_pc = "auth"
    /\ ~sk_has_user
    /\ sk_pc' = "request"
    /\ UNCHANGED <<sk_has_user, sk_attempt, sk_next, sk_header, sk_cache,
                   sk_auths, sk_data, sk_meta_next, sk_pos, sk_served, sk_out,
                   sk_pages, sk_reqlog, sk_tokens>>
    /\ UNCHANGED <<sk_now, sk_times, sk_resets>>
    /\ UNCHANGED notSk

\* self.authenticate() answered from the cache.
SkAuthCached ==
    /\ sk_pc = "auth"
    /\ sk_has_user
    /\ CacheValid(sk_cache, 0)
    /\ sk_header' = sk_cache.value
    /\ sk_pc' = "request"
    /\ UNCHANGED <<sk_has_user, sk_attempt, sk_next, sk_cache, sk_auths,
                   sk_data, sk_meta_next, sk_pos, sk_served, sk_out,
                   sk_pages, sk_reqlog, sk_tokens>>
    /\ UNCHANGED <<sk_now, sk_times, sk_resets>>
    /\ UNCHANGED notSk

\* self.authenticate() with no valid entry: _authenticate_impl logs in and
\* its result is stored and put into the Authorization header.
SkAuthLogin ==
    /\ sk_pc = "auth"
    /\ sk_has_user
    /\ ~CacheValid(sk_cache, 0)
    /\ sk_auths' = sk_auths + 1
    /\ sk_cache' = CacheStore(sk_auths + 1, 0, SkMaxAge)
    /\ sk_header' = sk_auths + 1
    /\ sk_pc' = "request"
    /\ UNCHANGED <<sk_has_user, sk_attempt, sk_next, sk_data, sk_meta_next,
                   sk_pos, sk_served, sk_out, sk_pages, sk_reqlog, sk_tokens>>
    /\ UNCHANGED <<sk_now, sk_times, sk_resets>>
    /\ UNCHANGED notSk

\* self.authenticate() with no valid entry and a rejected login:
\* _authenticate_impl raises AuthenticationError, nothing is stored.
SkAuthRejected ==
    /\ sk_pc = "auth"
    /\ sk_has_user
    /\ ~CacheValid(sk_cache, 0)
    /\ sk_auths' = sk_auths + 1
    /\ sk_pc' = "auth_error"
    /\ UNCHANGED <<sk_has_user, sk_attempt, sk_next, sk_header, sk_cache,
                   sk_data, sk_meta_next, sk_pos, sk_served, sk_out,
                   sk_pages, sk_reqlog, sk_tokens>>
    /\ UNCHANGED <<sk_now, sk_times, sk_resets>>
    /\ UNCHANGED notSk

\* The request record kept for every HTTP request of _call.
SkRequestRecord(resp) ==
    [page |-> Len(sk_pages), next |-> sk_next, auth |-> sk_header, resp |-> resp]

\* After a retried attempt: the next iteration of range(5), or, when the
\* loop is used up, _call returns None and data["data"] raises TypeError.
SkAfterRetry_Forever(attempt) == "auth"
SkAfterRetry(attempt) == IF attempt + 1 < SkTries THEN "auth" ELSE "crash"

\* response.status_code == 429: wait(until=X-RateLimit-Reset), continue.
SkThrottled ==
    /\ sk_pc = "request"
    /\ Len(sk_reqlog) < MaxRequests
    /\ sk_reqlog' = Append(sk_reqlog, SkRequestRecord("429"))
    /\ sk_attempt' = sk_attempt + 1
    /\ sk_pc' = SkAfterRetry(sk_attempt)
    /\ UNCHANGED <<sk_has_user, sk_next, sk_header, sk_cache, sk_auths,
                   sk_data, sk_meta_next, sk_pos, sk_served, sk_out,
                   sk_pages, sk_tokens>>
    /\ sk_times' = Append(sk_times, sk_now)
    /\ \E until \in Resets(sk_now) :
         /\ sk_resets' = Append(sk_resets, until)
         /\ sk_now' = WaitEnd(sk_now, until, NoReset)
    /\ UNCHANGED notSk

\* success is false and code == "invalid_token": invalidate, continue.
SkInvalidToken ==
    /\ sk_pc = "request"
    /\ Len(sk_reqlog) < MaxRequests
    /\ sk_reqlog' = Append(sk_reqlog, SkRequestRecord("invalid_token"))
    /\ sk_cache' = SkOnInvalidToken(sk_cache)
    /\ sk_attempt' = sk_attempt + 1
    /\ sk_pc' = SkAfterRetry(sk_attempt)
    /\ UNCHANGED <<sk_has_user, sk_next, sk_header, sk_auths, sk_data,
                   sk_meta_next, sk_pos, sk_served, sk_out, sk_pages,
                   sk_tokens>>
    /\ sk_times' = Append(sk_times, sk_now)
    /\ sk_resets' = Append(sk_resets, NoReset)
    /\ UNCHANGED sk_now
    /\ UNCHANGED notSk

\* success is false with another code: raise StopExtraction(code).
SkStop ==
    /\ sk_pc = "request"
    /\ Len(sk_reqlog) < MaxRequests
    /\ sk_reqlog' = Append(sk_reqlog, SkRequestRecord("error"))
    /\ sk_pc' = "stop"
    /\ UNCHANGED <<sk_has_user, sk_attempt, sk_next, sk_header, sk_cache,
                   sk_auths, sk_data, sk_meta_next, sk_pos, sk_served, sk_out,
                   sk_pages, sk_tokens>>
    /\ sk_times' = Append(sk_times, sk_now)
    /\ sk_resets' = Append(sk_resets, NoReset)
    /\ UNCHANGED sk_now
    /\ UNCHANGED notSk

\* A successful response: _call returns data, _pagination starts to yield.
SkPage ==
    /\ sk_pc = "request"
    /\ Len(sk_reqlog) < MaxRequests
    /\ sk_reqlog' = Append(sk_reqlog, SkRequestRecord("ok"))
    /\ \E n \in 0..MaxPageItems, t \in Tokens \cup FalsyTokens :
         /\ sk_data' = PageOf(sk_served, n)
         /\ sk_served' = sk_served + n
         /\ sk_meta_next' = t
         /\ sk_tokens' = Append(sk_tokens, t)
    /\ sk_pos' = 1
    /\ sk_pc' = "yield"
    /\ UNCHANGED <<sk_has_user, sk_attempt, sk_next, sk_header, sk_cache,
                   sk_auths, sk_out, sk_pages>>
    /\ sk_times' = Append(sk_times, sk_now)
    /\ sk_resets' = Append(sk_resets, NoReset)
    /\ UNCHANGED sk_now
    /\ UNCHANGED notSk

\* yield from data["data"]: the consumer pulls one more item.
SkYield ==
    /\ sk_pc = "yield"
    /\ sk_pos <= Len(sk_data)
    /\ sk_out' = Append(sk_out, sk_data[sk_pos])
    /\ sk_pos' = sk_pos + 1
    /\ UNCHANGED <<sk_has_user, sk_pc, sk_attempt, sk_next, sk_header,
                   sk_cache, sk_auths, sk_data, sk_meta_next, sk_served,
                   sk_pages, sk_reqlog, sk_tokens>>
    /\ UNCHANGED <<sk_now, sk_times, sk_resets>>
    /\ UNCHANGED notSk

\* params["next"] = data["meta"]["next"]; return when it is falsy.
SkAdvance ==
    /\ sk_pc = "yield"
    /\ sk_pos > Len(sk_data)
    /\ sk_next' = SkNextParam(sk_next, sk_meta_next)
    /\ sk_pc' = IF IsFalsy(sk_next') THEN "done" ELSE "call"
    /\ UNCHANGED <<sk_has_user, sk_attempt, sk_header, sk_cache, sk_auths,
                   sk_data, sk_meta_next, sk_pos, sk_served, sk_out,
                   sk_pages, sk_reqlog, sk_tokens>>
    /\ UNCHANGED <<sk_now, sk_times, sk_resets>>
    /\ UNCHANGED notSk

SkNext ==
    \/ SkCall
    \/ SkAuthNoUser
    \/ SkAuthCached
    \/ SkAuthLogin
    \/ SkAuthRejected
    \/ SkThrottled
    \/ SkInvalidToken
    \/ SkStop
    \/ SkPage
    \/ SkYield
    \/ SkAdvance

-----------------------------------------------------------------------------
(***************************************************************************)
(* text.parse_int(value, default): the integer a string denotes, or the    *)
(* default when it denotes none.  A header value is modelled as the number *)
(* it spells, NoNumber standing for a string that spells no integer.       *)
(***************************************************************************)

NoNumber == -1

parse_int(value, default) == IF value = NoNumber THEN default ELSE value

-----------------------------------------------------------------------------
(***************************************************************************)
(* Byte-range pagination: NozomiTagExtractor.posts and decode_nozomi.      *)
(***************************************************************************)

\* Largest size in bytes of the .nozomi file of a tag.
MaxTotal == 1030

\* The width of one range request: bytes=i-(i+255), i += 256.
NzChunk == 256

\* One identifier takes four bytes.
NzWidth == 4

\* The identifier of the k-th post of the file.
PostId(k) == k * 70001

\* The byte at offset j (from 0) of the file: identifiers in big-endian
\* order, four bytes each.
FileByte(j) ==
    LET id == PostId((j \div NzWidth) + 1)
        p  == j % NzWidth
    IN  CASE p = 0 -> (id \div 16777216) % 256
          [] p = 1 -> (id \div 65536) % 256
          [] p = 2 -> (id \div 256) % 256
          [] OTHER -> id % 256

\* The bytes at offsets first..last of a file of `total` bytes.
FileBytes(total, first, last) ==
    LET stop == IF last < total - 1 THEN last ELSE total - 1
    IN  [k \in 1..(stop - first + 1) |-> FileByte(first + k - 1)]

\* The server's body for "Range: bytes=first-last": the bytes of the range
\* when it honours the header, the whole file when it ignores it.
NzBody(total, ranged, first, last) ==
    IF ranged THEN FileBytes(total, first, last)
    ELSE FileBytes(total, 0, total - 1)

\* What follows the "/" of the Content-Range header: the total size, or
\* nothing when the response has no such header.
NzContentRange(total, ranged) == IF ranged THEN total ELSE NoNumber

\* The value decode_nozomi computes at offset i (from 0) of n:
\* (n[i] << 24) + (n[i+1] << 16) + (n[i+2] << 8) + n[i+3]
DecodeAt(n, i) ==
    n[i + 1] * 16777216 + n[i + 2] * 65536 + n[i + 3] * 256 + n[i + 4]

\* The stop test of posts: text.parse_int(cr, i) <= i.
NzStop_Strict(cr, i) == parse_int(cr, i) < i
NzStop(cr, i) == parse_int(cr, i) <= i

NzInit ==
    /\ nz_total \in 1..MaxTotal
    /\ nz_ranged \in BOOLEAN
    /\ nz_i = 0
    /\ nz_pc = "request"
    /\ nz_content = <<>>
    /\ nz_cr = NoNumber
    /\ nz_pos = 0
    /\ nz_out = <<>>
    /\ nz_ranges = <<>>

NzIdle ==
    /\ nz_total = 0
    /\ nz_ranged = FALSE
    /\ nz_i = 0
    /\ nz_pc = "idle"
    /\ nz_content = <<>>
    /\ nz_cr = NoNumber
    /\ nz_pos = 0
    /\ nz_out = <<>>
    /\ nz_ranges = <<>>

\* headers = {"Range": f"bytes={i}-{i + 255}"}; response = self.request(...)
NzRequest ==
    /\ nz_pc = "request"
    /\ nz_ranges' = Append(nz_ranges, <<nz_i, nz_i + NzChunk - 1>>)
    /\ nz_content' = NzBody(nz_total, nz_ranged, nz_i, nz_i + NzChunk - 1)
    /\ nz_cr' = NzContentRange(nz_total, nz_ranged)
    /\ nz_pos' = 0
    /\ nz_pc' = "yield"
    /\ UNCHANGED <<nz_total, nz_ranged, nz_i, nz_out>>
    /\ UNCHANGED notNz

\* yield from decode_nozomi(response.content): the next four bytes, or an
\* IndexError when fewer than four are left.
NzYield ==
    /\ nz_pc = "yield"
    /\ nz_pos < Len(nz_content)
    /\ IF nz_pos + NzWidth <= Len(nz_content)
         THEN /\ nz_out' = Append(nz_out, DecodeAt(nz_content, nz_pos))
              /\ nz_pos' = nz_pos + NzWidth
              /\ nz_pc' = nz_pc
         ELSE /\ nz_pc' = "error"
              /\ UNCHANGED <<nz_out, nz_pos>>
    /\ UNCHANGED <<nz_total, nz_ranged, nz_i, nz_content, nz_cr, nz_ranges>>
    /\ UNCHANGED notNz

\* i += 256; return when the total size of Content-Range is reached.
NzAdvance ==
    /\ nz_pc = "yield"
    /\ nz_pos >= Len(nz_content)
    /\ nz_i' = nz_i + NzChunk
    /\ nz_pc' = IF NzStop(nz_cr, nz_i') THEN "done" ELSE "request"
    /\ UNCHANGED <<nz_total, nz_ranged, nz_content, nz_cr, nz_pos, nz_out,
                   nz_ranges>>
    /\ UNCHANGED notNz

NzNext == NzRequest \/ NzYield \/ NzAdvance

-----------------------------------------------------------------------------
(***************************************************************************)
(* Set-algebra search: NozomiSearchExtractor.posts.                        *)
(***************************************************************************)

\* Largest post identifier of the site.
MaxId == 3
\* Largest number of search terms.
MaxTerms == 3

\* The tags that have a .nozomi file on the server.
TagNames == {"a", "b"}

\* A search term: a tag, negative when written with a leading "-".
Terms == [neg : BOOLEAN, name : TagNames]

\* All sequences over S of length at most n.
SeqsUpTo(S, n) == UNION {[1..m -> S] : m \in 0..n}

\* sorted(result, reverse=True)
RECURSIVE SortedDesc(_)
SortedDesc(S) ==
    IF S = {} THEN <<>>
    ELSE LET m == CHOOSE x \in S : \A y \in S : y <= x
         IN  <<m>> \o SortedDesc(S \ {m})

\* `if not index`: index is None or an empty set.
NsIndexMissing(is_set, index) == ~is_set \/ index = {}

\* The update of result by the items of one term:
\* result.intersection_update(items) if result else result.update(items)
NsCombine(result, items) ==
    IF result # {} THEN result \cap items ELSE result \cup items

\* The path of the request for a term's file.
NsPath(name) == <<"nozomi", name>>
NsIndexPath == <<"index">>

NsInit ==
    /\ ns_files \in [TagNames \cup {"index"} -> SUBSET (1..MaxId)]
    \* the index lists every post, so every tag's posts are in it
    /\ \A t \in TagNames : ns_files[t] \subseteq ns_files["index"]
    /\ ns_tags \in SeqsUpTo(Terms, MaxTerms)
    /\ ns_index_set = FALSE
    /\ ns_index = {}
    /\ ns_result = {}
    /\ ns_k = 1
    /\ ns_pc = "loop"
    /\ ns_fetches = <<>>
    /\ ns_return = <<>>

NsIdle ==
    /\ ns_files = [t \in TagNames \cup {"index"} |-> {}]
    /\ ns_tags = <<>>
    /\ ns_index_set = FALSE
    /\ ns_index = {}
    /\ ns_result = {}
    /\ ns_k = 1
    /\ ns_pc = "idle"
    /\ ns_fetches = <<>>
    /\ ns_return = <<>>

\* One iteration for a tag without "-": items = nozomi(f"nozomi/{tag}").
NsPositive ==
    /\ ns_pc = "loop"
    /\ ns_k <= Len(ns_tags)
    /\ ~ns_tags[ns_k].neg
    /\ LET name == ns_tags[ns_k].name
       IN  /\ ns_fetches' = Append(ns_fetches, NsPath(name))
           /\ ns_result' = NsCombine(ns_result, ns_files[name])
    /\ ns_k' = ns_k + 1
    /\ UNCHANGED <<ns_files, ns_tags, ns_index_set, ns_index, ns_pc, ns_return>>
    /\ UNCHANGED notNs

\* One iteration for a tag with "-": the index is fetched when `not index`,
\* items = index.difference(nozomi(f"nozomi/{tag[1:]}")).
NsNegative ==
    /\ ns_pc = "loop"
    /\ ns_k <= Len(ns_tags)
    /\ ns_tags[ns_k].neg
    /\ LET name  == ns_tags[ns_k].name
           fetch == NsIndexMissing(ns_index_set, ns_index)
           index == IF fetch THEN ns_files["index"] ELSE ns_index
       IN  /\ ns_index' = index
           /\ ns_index_set' = TRUE
           /\ ns_fetches' =
                (IF fetch THEN Append(ns_fetches, NsIndexPath) ELSE ns_fetches)
                    \o <<NsPath(name)>>
           /\ ns_result' = NsCombine(ns_result, index \ ns_files[name])
    /\ ns_k' = ns_k + 1
    /\ UNCHANGED <<ns_files, ns_tags, ns_pc, ns_return>>
    /\ UNCHANGED notNs

\* return sorted(result, reverse=True)
NsReturn ==
    /\ ns_pc = "loop"
    /\ ns_k > Len(ns_tags)
    /\ ns_return' = SortedDesc(ns_result)
    /\ ns_pc' = "done"
    /\ UNCHANGED <<ns_files, ns_tags, ns_index_set, ns_index, ns_result, ns_k,
                   ns_fetches>>
    /\ UNCHANGED notNs

NsNext == NsPositive \/ NsNegative \/ NsReturn

-----------------------------------------------------------------------------
(***************************************************************************)
(* The credential cache under two workers: DeviantartOAuthAPI.authenticate *)
(* over the cached _authenticate_impl.  Each worker owns its API object    *)
(* (its headers); the cache of _authenticate_impl is shared.  The cache    *)
(* answers a call within maxage from its entry and runs the wrapped        *)
(* function for one caller at a time and key, the others waiting for the   *)
(* result of the call in flight.                                           *)
(***************************************************************************)

\* Number of authenticate() calls explored.
MaxCalls == 3
\* Number of times the clock is advanced.
MaxTicks == 2

Workers == {1, 2}

\* @cache(maxage=3600, keyarg=1)
DaMaxAge_Half == 3600 \div 2
DaMaxAge == 3600

\* The values of refresh_token_key: None (public token) and a key of the
\* refresh-token cache (private token).
DaKeys == {"None", "#5388"}

\* keyarg=1: the cache key is the refresh_token_key argument, not self.
DaCacheKey_PerObject(w, k) == <<w, k>>
DaCacheKey(w, k) == <<0, k>>

CacheKeys == ({0} \cup Workers) \X DaKeys

\* The amounts by which the clock is advanced.
CcSteps == {1, DaMaxAge - 1}

\* The record of one authenticate() call: its key, when it returned, the
\* token it put into the header (0: it raised), whether it ran the wrapped
\* function itself and whether it waited for another caller's run.
CcCallRecord(k, at, value, invoked, waited) ==
    [key |-> k, at |-> at, value |-> value, invoked |-> invoked,
     waited |-> waited]

\* The record of one run of the body of _authenticate_impl: stored is the
\* time its result was stored, -1 while it runs, -2 when it raised.
CcRunRecord(k, w, stored) == [key |-> k, by |-> w, stored |-> stored]

CcInit ==
    /\ cc_now = 0
    /\ cc_ticks = 0
    /\ cc_calls = 0
    /\ cc_cache = [c \in CacheKeys |-> NoEntry]
    /\ cc_flight = [c \in CacheKeys |-> 0]
    /\ cc_pc = [w \in Workers |-> "ready"]
    /\ cc_key = [w \in Workers |-> "None"]
    /\ cc_header = [w \in Workers |-> 0]
    /\ cc_last = [w \in Workers |-> CcCallRecord("None", 0, 0, FALSE, FALSE)]
    /\ cc_runs = <<>>

CcIdle ==
    /\ cc_now = 0
    /\ cc_ticks = 0
    /\ cc_calls = 0
    /\ cc_cache = [c \in CacheKeys |-> NoEntry]
    /\ cc_flight = [c \in CacheKeys |-> 0]
    /\ cc_pc = [w \in Workers |-> "idle"]
    /\ cc_key = [w \in Workers |-> "None"]
    /\ cc_header = [w \in Workers |-> 0]
    /\ cc_last = [w \in Workers |-> CcCallRecord("None", 0, 0, FALSE, FALSE)]
    /\ cc_runs = <<>>

\* authenticate(k) answered from the cache entry.
CcHit(w, k) ==
    /\ cc_pc[w] = "ready"
    /\ cc_calls < MaxCalls
    /\ CacheValid(cc_cache[DaCacheKey(w, k)], cc_now)
    /\ cc_calls' = cc_calls + 1
    /\ cc_key' = [cc_key EXCEPT ![w] = k]
    /\ cc_header' = [cc_header EXCEPT ![w] = cc_cache[DaCacheKey(w, k)].value]
    /\ cc_last' = [cc_last EXCEPT ![w] =
          CcCallRecord(k, cc_now, cc_cache[DaCacheKey(w, k)].value, FALSE, FALSE)]
    /\ UNCHANGED <<cc_now, cc_ticks, cc_cache, cc_flight, cc_pc, cc_runs>>
    /\ UNCHANGED notCc

\* authenticate(k) with no valid entry and no call in flight for the key:
\* the body of _authenticate_impl starts (POST to oauth2/token).
CcMiss(w, k) ==
    /\ cc_pc[w] = "ready"
    /\ cc_calls < MaxCalls
    /\ ~CacheValid(cc_cache[DaCacheKey(w, k)], cc_now)
    /\ cc_flight[DaCacheKey(w, k)] = 0
    /\ cc_calls' = cc_calls + 1
    /\ cc_key' = [cc_key EXCEPT ![w] = k]
    /\ cc_flight' = [cc_flight EXCEPT ![DaCacheKey(w, k)] = w]
    /\ cc_pc' = [cc_pc EXCEPT ![w] = "auth"]
    /\ cc_runs' = Append(cc_runs, CcRunRecord(k, w, -1))
    /\ UNCHANGED <<cc_now, cc_ticks, cc_cache, cc_header, cc_last>>
    /\ UNCHANGED notCc

\* authenticate(k) with no valid entry while another caller's call for the
\* key is in flight: the caller waits for that call's result.
CcWait(w, k) ==
    /\ cc_pc[w] = "ready"
    /\ cc_calls < MaxCalls
    /\ ~CacheValid(cc_cache[DaCacheKey(w, k)], cc_now)
    /\ cc_flight[DaCacheKey(w, k)] # 0
    /\ cc_calls' = cc_calls + 1
    /\ cc_key' = [cc_key EXCEPT ![w] = k]
    /\ cc_pc' = [cc_pc EXCEPT ![w] = "wait"]
    /\ UNCHANGED <<cc_now, cc_ticks, cc_cache, cc_flight, cc_header, cc_last,
                   cc_runs>>
    /\ UNCHANGED notCc

\* The run of worker w that is in flight, and the callers waiting for it.
CcRunOf(w) == CHOOSE i \in 1..Len(cc_runs) :
                  cc_runs[i].by = w /\ cc_runs[i].stored = -1
CcWaiters(w) ==
    {v \in Workers : /\ cc_pc[v] = "wait"
                     /\ DaCacheKey(v, cc_key[v]) = DaCacheKey(w, cc_key[w])}

\* The token endpoint answers 200: "Bearer " + data["access_token"] is
\* returned, stored for maxage seconds and handed to the waiting callers.
CcReturn(w) ==
    /\ cc_pc[w] = "auth"
    /\ LET i == CcRunOf(w)
           c == DaCacheKey(w, cc_key[w])
           got == CcWaiters(w) \cup {w}
       IN  /\ cc_runs' = [cc_runs EXCEPT ![i].stored = cc_now]
           /\ cc_cache' = [cc_cache EXCEPT ![c] = CacheStore(i, cc_now, DaMaxAge)]
           /\ cc_flight' = [cc_flight EXCEPT ![c] = 0]
           /\ cc_header' = [v \in Workers |-> IF v \in got THEN i ELSE cc_header[v]]
           /\ cc_last' = [v \in Workers |->
                 IF v \in got
                 THEN CcCallRecord(cc_key[v], cc_now, i, v = w, v # w)
                 ELSE cc_last[v]]
           /\ cc_pc' = [v \in Workers |-> IF v \in got THEN "ready" ELSE cc_pc[v]]
    /\ UNCHANGED <<cc_now, cc_ticks, cc_calls, cc_key>>
    /\ UNCHANGED notCc

\* The token endpoint answers with another status: AuthenticationError is
\* raised, nothing is stored, the waiting callers get the same error.
CcRaise(w) ==
    /\ cc_pc[w] = "auth"
    /\ LET i == CcRunOf(w)
           c == DaCacheKey(w, cc_key[w])
           got == CcWaiters(w) \cup {w}
       IN  /\ cc_runs' = [cc_runs EXCEPT ![i].stored = -2]
           /\ cc_flight' = [cc_flight EXCEPT ![c] = 0]
           /\ cc_last' = [v \in Workers |->
                 IF v \in got
                 THEN CcCallRecord(cc_key[v], cc_now, 0, v = w, v # w)
                 ELSE cc_last[v]]
           /\ cc_pc' = [v \in Workers |-> IF v \in got THEN "ready" ELSE cc_pc[v]]
    /\ UNCHANGED <<cc_now, cc_ticks, cc_calls, cc_cache, cc_key, cc_header>>
    /\ UNCHANGED notCc

\* Time passes.
CcTick ==
    /\ cc_ticks < MaxTicks
    /\ cc_ticks' = cc_ticks + 1
    /\ \E d \in CcSteps : cc_now' = cc_now + d
    /\ UNCHANGED <<cc_calls, cc_cache, cc_flight, cc_pc, cc_key, cc_header,
                   cc_last, cc_runs>>
    /\ UNCHANGED notCc

CcNext ==
    \/ \E w \in Workers, k \in DaKeys : CcHit(w, k)
    \/ \E w \in Workers, k \in DaKeys : CcMiss(w, k)
    \/ \E w \in Workers, k \in DaKeys : CcWait(w, k)
    \/ \E w \in Workers : CcReturn(w)
    \/ \E w \in Workers : CcRaise(w)
    \/ CcTick

-----------------------------------------------------------------------------
(***************************************************************************)
(* The adaptive delay: DeviantartOAuthAPI.__init__ and _call, with the     *)
(* authenticate() of every attempt.                                        *)
(***************************************************************************)

\* Number of API requests of one API object that are explored.
MaxDaRequests == 3

\* The values of the option wait-min that are explored: below the floor,
\* between floor and ceiling, at the ceiling and above it.
WaitMins == {0, 1, 2, 3, 28, 29, 30, 31}

\* self.delay_min = max(2, self.delay)
DaFloor == 2
\* if self.delay < 30
DaCeiling == 30

Max(a, b) == IF a >= b THEN a ELSE b

\* Variant: the floor is the configured wait-min itself.
DaDelayMin_WaitMin(delay) == delay

\* self.delay_min = max(2, self.delay)
DaDelayMin(delay) == Max(DaFloor, delay)

\* status == 429: if self.delay < 30: self.delay += 1
DaOn429_NoCeiling(delay) == delay + 1
DaOn429(delay) == IF delay < DaCeiling THEN delay + 1 ELSE delay

\* 200 <= status < 400: if self.delay > self.delay_min: self.delay -= 1
DaOnSuccess_NoFloor(delay, delay_min) == IF delay > 0 THEN delay - 1 ELSE delay
DaOnSuccess(delay, delay_min) == IF delay > delay_min THEN delay - 1 ELSE delay

\* The kinds of response _call tells apart: a status in 200..399, status
\* 429, another status with error_description "User not found.", and any
\* other status.
DaResponses == {"ok", "429", "notfound", "error"}

\* self.authenticate(None if public else self.refresh_token_key)
DaAuthKey_AlwaysPublic(public, refresh_token_key) == "None"
DaAuthKey(public, refresh_token_key) ==
    IF public THEN "None" ELSE refresh_token_key

\* What is kept of a run of _authenticate_impl.
DaLoginRecord(ok) ==
    [key |-> DaAuthKey(da_public, da_refresh), time |-> da_now,
     requests |-> Len(da_log), ok |-> ok]

\* raise exception.AuthenticationError: nothing in _call catches it.
DaOnRejected_Retry == "sleep"
DaOnRejected == "auth_error"

\* The entry of one attempt in the history of the API object.
DaLogRecord(status, before, after) ==
    [status |-> status, before |-> before, after |-> after]

DaInit ==
    /\ da_wait_min \in WaitMins
    /\ da_delay = da_wait_min
    /\ da_delay_min = DaDelayMin(da_wait_min)
    /\ da_refresh \in DaKeys
    /\ da_pc = "ready"
    /\ da_fatal = TRUE
    /\ da_public = TRUE
    /\ da_now = 0
    \* the cache outlives a run: it may hold a public token stored by an
    \* earlier job, fresh or about to expire
    /\ da_cache \in {[k \in DaKeys |-> NoEntry],
                     [k \in DaKeys |-> IF k = "None"
                                       THEN CacheStore(1, 0, DaMaxAge) ELSE NoEntry],
                     [k \in DaKeys |-> IF k = "None"
                                       THEN CacheStore(1, 0, 1) ELSE NoEntry]}
    /\ da_auths = da_cache["None"].value
    /\ da_header = 0
    /\ da_log = <<>>
    /\ da_result = "none"
    /\ da_logins = <<>>

DaIdle ==
    /\ da_wait_min = 0
    /\ da_delay = 0
    /\ da_delay_min = DaFloor
    /\ da_refresh = "None"
    /\ da_pc = "idle"
    /\ da_fatal = TRUE
    /\ da_public = TRUE
    /\ da_now = 0
    /\ da_cache = [k \in DaKeys |-> NoEntry]
    /\ da_auths = 0
    /\ da_header = 0
    /\ da_log = <<>>
    /\ da_result = "none"
    /\ da_logins = <<>>

\* A caller enters _call(endpoint, params, fatal, public).
DaCall ==
    /\ da_pc = "ready"
    /\ Len(da_log) < MaxDaRequests
    /\ da_fatal' \in BOOLEAN
    /\ da_public' \in BOOLEAN
    /\ da_pc' = "sleep"
    /\ da_result' = "none"
    /\ UNCHANGED <<da_wait_min, da_delay, da_delay_min, da_refresh, da_now,
                   da_cache, da_auths, da_header, da_log>>
    /\ UNCHANGED da_logins
    /\ UNCHANGED notDa

\* if self.delay: time.sleep(self.delay)
DaSleep ==
    /\ da_pc = "sleep"
    /\ da_now' = da_now + da_delay
    /\ da_pc' = "auth"
    /\ UNCHANGED <<da_wait_min, da_delay, da_delay_min, da_refresh, da_fatal,
                   da_public, da_cache, da_auths, da_header, da_log, da_result>>
    /\ UNCHANGED da_logins
    /\ UNCHANGED notDa

\* self.authenticate(...) answered from the cache.
DaAuthCached ==
    /\ da_pc = "auth"
    /\ CacheValid(da_cache[DaAuthKey(da_public, da_refresh)], da_now)
    /\ da_header' = da_cache[DaAuthKey(da_public, da_refresh)].value
    /\ da_pc' = "request"
    /\ UNCHANGED <<da_wait_min, da_delay, da_delay_min, da_refresh, da_fatal,
                   da_public, da_now, da_cache, da_auths, da_log, da_result>>
    /\ UNCHANGED da_logins
    /\ UNCHANGED notDa

\* self.authenticate(...) with no valid entry: the token endpoint answers
\* 200 and the new token is stored for maxage seconds.
DaAuthLogin ==
    /\ da_pc = "auth"
    /\ ~CacheValid(da_cache[DaAuthKey(da_public, da_refresh)], da_now)
    /\ da_auths' = da_auths + 1
    /\ da_cache' = [da_cache EXCEPT ![DaAuthKey(da_public, da_refresh)] =
                       CacheStore(da_auths + 1, da_now, DaMaxAge)]
    /\ da_header' = da_auths + 1
    /\ da_pc' = "request"
    /\ UNCHANGED <<da_wait_min, da_delay, da_delay_min, da_refresh, da_fatal,
                   da_public, da_now, da_log, da_result>>
    /\ da_logins' = Append(da_logins, DaLoginRecord(TRUE))
    /\ UNCHANGED notDa

\* self.authenticate(...) with no valid entry and a status other than 200
\* from the token endpoint: AuthenticationError leaves _call.
DaAuthRejected ==
    /\ da_pc = "auth"
    /\ ~CacheValid(da_cache[DaAuthKey(da_public, da_refresh)], da_now)
    /\ da_auths' = da_auths + 1
    /\ da_pc' = DaOnRejected
    /\ da_result' = "AuthenticationError"
    /\ UNCHANGED <<da_wait_min, da_delay, da_delay_min, da_refresh, da_fatal,
                   da_public, da_now, da_cache, da_header, da_log>>
    /\ da_logins' = Append(da_logins, DaLoginRecord(FALSE))
    /\ UNCHANGED notDa

\* 200 <= status < 400: the delay recovers one step, data is returned.
DaSuccess ==
    /\ da_pc = "request"
    /\ da_delay' = DaOnSuccess(da_delay, da_delay_min)
    /\ da_log' = Append(da_log, DaLogRecord("ok", da_delay, da_delay'))
    /\ da_pc' = "ready"
    /\ da_result' = "data"
    /\ UNCHANGED <<da_wait_min, da_delay_min, da_refresh, da_fatal, da_public,
                   da_now, da_cache, da_auths, da_header>>
    /\ UNCHANGED da_logins
    /\ UNCHANGED notDa

\* status == 429: the delay grows one step, the loop starts over.
DaThrottled ==
    /\ da_pc = "request"
    /\ da_delay' = DaOn429(da_delay)
    /\ da_log' = Append(da_log, DaLogRecord("429", da_delay, da_delay'))
    /\ da_pc' = IF Len(da_log') < MaxDaRequests THEN "sleep" ELSE "capped"
    /\ UNCHANGED <<da_wait_min, da_delay_min, da_refresh, da_fatal, da_public,
                   da_now, da_cache, da_auths, da_header, da_result>>
    /\ UNCHANGED da_logins
    /\ UNCHANGED notDa

\* not fatal and status != 429 (and not a success): return None.
DaNotFatal ==
    /\ da_pc = "request"
    /\ ~da_fatal
    /\ \E status \in DaResponses \ {"ok", "429"} :
         da_log' = Append(da_log, DaLogRecord(status, da_delay, da_delay))
    /\ da_pc' = "ready"
    /\ da_result' = "None"
    /\ UNCHANGED <<da_wait_min, da_delay, da_delay_min, da_refresh, da_fatal,
                   da_public, da_now, da_cache, da_auths, da_header>>
    /\ UNCHANGED da_logins
    /\ UNCHANGED notDa

\* fatal, error_description == "User not found.": raise NotFoundError.
DaNotFound ==
    /\ da_pc = "request"
    /\ da_fatal
    /\ da_log' = Append(da_log, DaLogRecord("notfound", da_delay, da_delay))
    /\ da_pc' = "not_found"
    /\ da_result' = "NotFoundError"
    /\ UNCHANGED <<da_wait_min, da_delay, da_delay_min, da_refresh, da_fatal,
                   da_public, da_now, da_cache, da_auths, da_header>>
    /\ UNCHANGED da_logins
    /\ UNCHANGED notDa

\* fatal, any other status: the error is logged and data is returned.
DaError ==
    /\ da_pc = "request"
    /\ da_fatal
    /\ da_log' = Append(da_log, DaLogRecord("error", da_delay, da_delay))
    /\ da_pc' = "ready"
    /\ da_result' = "data"
    /\ UNCHANGED <<da_wait_min, da_delay, da_delay_min, da_refresh, da_fatal,
                   da_public, da_now, da_cache, da_auths, da_header>>
    /\ UNCHANGED da_logins
    /\ UNCHANGED notDa

DaNext ==
    \/ DaCall
    \/ DaSleep
    \/ DaAuthCached
    \/ DaAuthLogin
    \/ DaAuthRejected
    \/ DaSuccess
    \/ DaThrottled
    \/ DaNotFatal
    \/ DaNotFound
    \/ DaError

-----------------------------------------------------------------------------
(***************************************************************************)
(* Request spacing: DeviantartExtractor._limited_request and the class     *)
(* attribute _last_request.  Time is in seconds.                           *)
(***************************************************************************)

\* Number of requests issued that are explored.
MaxLrRequests == 2

\* if diff < 2.0: delay = 2.0 - diff
LrInterval == 2
\* self.wait(seconds=180)
LrBlockedWait == 180

\* time.time() when the first call is made; _last_request is 0 then.
LrStart == 1000

\* Seconds the caller spends between two calls, and seconds a request
\* takes until its response is there.
LrGaps == {0, 1, 3}
LrLatencies == {0, 1}

\* diff = time.time() - DeviantartExtractor._last_request
\* if diff < 2.0: time.sleep(2.0 - diff)
LrSleepFor_None(now, last) == 0
LrSleepFor(now, last) ==
    IF now - last < LrInterval THEN LrInterval - (now - last) ELSE 0

LrLogRecord(w, at, last) == [by |-> w, at |-> at, last |-> last]
LrReturnRecord(w, blocked) == [by |-> w, blocked |-> blocked]

LrInit(ws) ==
    /\ lr_workers = ws
    /\ lr_now = LrStart
    /\ lr_last = 0
    /\ lr_pc = [w \in Workers |-> IF w \in ws THEN "ready" ELSE "off"]
    /\ lr_wake = [w \in Workers |-> 0]
    /\ lr_log = <<>>
    /\ lr_stamps = <<>>
    /\ lr_blocked = [w \in Workers |-> 0]
    /\ lr_returned = <<>>

LrIdle == LrInit({})

\* Entry of _limited_request: diff is computed, the sleep is decided.
LrEnter(w) ==
    /\ lr_pc[w] = "ready"
    /\ Len(lr_log) < MaxLrRequests
    /\ \E gap \in LrGaps :
         /\ lr_now' = lr_now + gap
         /\ lr_wake' = [lr_wake EXCEPT ![w] = lr_now' + LrSleepFor(lr_now', lr_last)]
         /\ lr_pc' = [lr_pc EXCEPT ![w] =
                         IF LrSleepFor(lr_now', lr_last) > 0 THEN "sleep"
                         ELSE "request"]
    /\ lr_blocked' = [lr_blocked EXCEPT ![w] = 0]
    /\ UNCHANGED <<lr_workers, lr_last, lr_log, lr_stamps, lr_returned>>
    /\ UNCHANGED notLr

\* time.sleep(delay) ends: not before the time asked for.
LrSleep(w) ==
    /\ lr_pc[w] = "sleep"
    /\ lr_now' = Max(lr_now, lr_wake[w])
    /\ lr_pc' = [lr_pc EXCEPT ![w] = "request"]
    /\ UNCHANGED <<lr_workers, lr_last, lr_wake, lr_log, lr_stamps,
                   lr_blocked, lr_returned>>
    /\ UNCHANGED notLr

\* response = self.request(url, **kwargs): the request leaves.
LrRequest(w) ==
    /\ lr_pc[w] = "request"
    /\ Len(lr_log) < MaxLrRequests
    /\ lr_log' = Append(lr_log, LrLogRecord(w, lr_now, lr_last))
    /\ lr_pc' = [lr_pc EXCEPT ![w] = "response"]
    /\ UNCHANGED <<lr_workers, lr_now, lr_last, lr_wake, lr_stamps,
                   lr_blocked, lr_returned>>
    /\ UNCHANGED notLr

\* The response is not a 403 "Request blocked.": _last_request is set and
\* the response returned.
LrReturn(w) ==
    /\ lr_pc[w] = "response"
    /\ \E d \in LrLatencies :
         /\ lr_now' = lr_now + d
         /\ lr_last' = lr_now'
         /\ lr_stamps' = Append(lr_stamps, lr_now')
    /\ lr_returned' = Append(lr_returned, LrReturnRecord(w, lr_blocked[w]))
    /\ lr_pc' = [lr_pc EXCEPT ![w] = "ready"]
    /\ UNCHANGED <<lr_workers, lr_wake, lr_log, lr_blocked>>
    /\ UNCHANGED notLr

\* The response is a 403 with "Request blocked.": self.wait(seconds=180).
LrBlocked(w) ==
    /\ lr_pc[w] = "response"
    /\ \E d \in LrLatencies :
         /\ lr_now' = lr_now + d
         /\ lr_wake' = [lr_wake EXCEPT ![w] = lr_now' + LrBlockedWait]
    /\ lr_blocked' = [lr_blocked EXCEPT ![w] = lr_blocked[w] + 1]
    /\ lr_pc' = [lr_pc EXCEPT ![w] = "wait"]
    /\ UNCHANGED <<lr_workers, lr_last, lr_log, lr_stamps, lr_returned>>
    /\ UNCHANGED notLr

\* self.wait(seconds=180) ends; the loop sends the request again.
LrWait(w) ==
    /\ lr_pc[w] = "wait"
    /\ lr_now' = Max(lr_now, lr_wake[w])
    /\ lr_pc' = [lr_pc EXCEPT ![w] = "request"]
    /\ UNCHANGED <<lr_workers, lr_last, lr_wake, lr_log, lr_stamps,
                   lr_blocked, lr_returned>>
    /\ UNCHANGED notLr

LrNext ==
    \E w \in Workers :
        \/ LrEnter(w)
        \/ LrSleep(w)
        \/ LrRequest(w)
        \/ LrReturn(w)
        \/ LrBlocked(w)
        \/ LrWait(w)

-----------------------------------------------------------------------------
(***************************************************************************)
(* Two DeviantArt extractors (jobs) of one process: each items() creates   *)
(* its own DeviantartOAuthAPI, whose _call keeps the delay in self.delay.  *)
(***************************************************************************)

\* Number of API requests of both extractors together that are explored.
MaxDjRequests == 3

Jobs == {1, 2}

DjLogRecord(j, applied, status, after) ==
    [job |-> j, applied |-> applied, status |-> status, after |-> after]

DjInit ==
    /\ dj_wait_min \in WaitMins
    /\ dj_api = [j \in Jobs |-> FALSE]
    /\ dj_delay = [j \in Jobs |-> 0]
    /\ dj_delay_min = [j \in Jobs |-> 0]
    /\ dj_log = <<>>

DjIdle ==
    /\ dj_wait_min = 0
    /\ dj_api = [j \in Jobs |-> FALSE]
    /\ dj_delay = [j \in Jobs |-> 0]
    /\ dj_delay_min = [j \in Jobs |-> 0]
    /\ dj_log = <<>>

\* items(): self.api = DeviantartOAuthAPI(self)
DjItems(j) ==
    /\ ~dj_api[j]
    /\ dj_api' = [dj_api EXCEPT ![j] = TRUE]
    /\ dj_delay' = [dj_delay EXCEPT ![j] = dj_wait_min]
    /\ dj_delay_min' = [dj_delay_min EXCEPT ![j] = DaDelayMin(dj_wait_min)]
    /\ UNCHANGED <<dj_wait_min, dj_log>>
    /\ UNCHANGED notDj

\* One iteration of the loop of self.api._call answered with a status in
\* 200..399: sleep self.delay, send the request, recover one step.
DjSuccess(j) ==
    /\ dj_api[j]
    /\ Len(dj_log) < MaxDjRequests
    /\ dj_delay' = [dj_delay EXCEPT ![j] =
                       DaOnSuccess(dj_delay[j], dj_delay_min[j])]
    /\ dj_log' = Append(dj_log,
                        DjLogRecord(j, dj_delay[j], "ok", dj_delay'[j]))
    /\ UNCHANGED <<dj_wait_min, dj_api, dj_delay_min>>
    /\ UNCHANGED notDj

\* One iteration answered with status 429: the delay grows one step.
DjThrottled(j) ==
    /\ dj_api[j]
    /\ Len(dj_log) < MaxDjRequests
    /\ dj_delay' = [dj_delay EXCEPT ![j] = DaOn429(dj_delay[j])]
    /\ dj_log' = Append(dj_log,
                        DjLogRecord(j, dj_delay[j], "429", dj_delay'[j]))
    /\ UNCHANGED <<dj_wait_min, dj_api, dj_delay_min>>
    /\ UNCHANGED notDj

\* One iteration answered with any other status: the delay stays.
DjOther(j) ==
    /\ dj_api[j]
    /\ Len(dj_log) < MaxDjRequests
    /\ \E status \in DaResponses \ {"ok", "429"} :
         dj_log' = Append(dj_log,
                          DjLogRecord(j, dj_delay[j], status, dj_delay[j]))
    /\ UNCHANGED <<dj_wait_min, dj_api, dj_delay, dj_delay_min>>
    /\ UNCHANGED notDj

DjNext ==
    \E j \in Jobs :
        \/ DjItems(j)
        \/ DjSuccess(j)
        \/ DjThrottled(j)
        \/ DjOther(j)

-----------------------------------------------------------------------------
(***************************************************************************)
(* TwitterAPI._call: one request, and on status 429 a wait followed by a   *)
(* call of itself.                                                         *)
(***************************************************************************)

\* Number of HTTP requests that are explored.
MaxTwRequests == 3

\* time.time() when the job starts.
TwStart == 100

\* seconds=(None if until else 60)
TwDefaultWait == 60

\* self.root
TwRoot == "https://twitter.com/i/api"
\* root of _guest_token
TwGuestRoot == "https://api.twitter.com"
TwRoots == {TwRoot, TwGuestRoot}

\* The calls of _call that are explored: a timeline page, self._call(
\* endpoint, params), and _guest_token, self._call(endpoint, None, root,
\* "POST").  root "None" is the default root=None.
TwCalls ==
    {[root |-> "None", endpoint |-> "/2/timeline/list.json",
      method |-> "GET", params |-> "params"],
     [root |-> TwGuestRoot, endpoint |-> "/1.1/guest/activate.json",
      method |-> "POST", params |-> "None"]}

NoCall == [root |-> "None", endpoint |-> "", method |-> "", params |-> ""]

\* if root is None: root = self.root
TwResolve(args) ==
    [args EXCEPT !.root = IF args.root = "None" THEN TwRoot ELSE args.root]

\* return self._call(endpoint, params, method): the third positional
\* parameter of _call is root, and method takes its default "GET".
TwRetryArgs_Same(args) == args
TwRetryArgs(args) ==
    [root |-> args.method, endpoint |-> args.endpoint, method |-> "GET",
     params |-> args.params]

\* seconds=(None if until else 60)
TwSeconds(until) == IF until # NoReset THEN NoReset ELSE TwDefaultWait

TwLogRecord(args, at, resp, until) ==
    [req |-> TwResolve(args), at |-> at, resp |-> resp, until |-> until]

\* response.cookies.get("ct0"): absent or a new token.
TwCookies == {"", "c1"}

\* if csrf_token := response.cookies.get("ct0"): self.headers[...] = it
TwCsrf(old, cookie) == IF cookie # "" THEN cookie ELSE old

TwInit ==
    /\ tw_now = TwStart
    /\ tw_pc = "ready"
    /\ tw_first = NoCall
    /\ tw_args = NoCall
    /\ tw_csrf = "c0"
    /\ tw_log = <<>>
    /\ tw_result = "none"

TwIdle ==
    /\ tw_now = 0
    /\ tw_pc = "idle"
    /\ tw_first = NoCall
    /\ tw_args = NoCall
    /\ tw_csrf = ""
    /\ tw_log = <<>>
    /\ tw_result = "none"

\* A caller enters _call.
TwCall ==
    /\ tw_pc = "ready"
    /\ Len(tw_log) < MaxTwRequests
    /\ \E call \in TwCalls :
         /\ tw_args' = call
         /\ tw_first' = TwResolve(call)
    /\ tw_pc' = "request"
    /\ tw_result' = "none"
    /\ UNCHANGED <<tw_now, tw_csrf, tw_log>>
    /\ UNCHANGED notTw

\* response.status_code < 400: return response.json()
TwSuccess ==
    /\ tw_pc = "request"
    /\ TwResolve(tw_args).root \in TwRoots
    /\ tw_log' = Append(tw_log, TwLogRecord(tw_args, tw_now, "ok", NoReset))
    /\ \E cookie \in TwCookies : tw_csrf' = TwCsrf(tw_csrf, cookie)
    /\ tw_pc' = "ready"
    /\ tw_result' = "json"
    /\ UNCHANGED <<tw_now, tw_first, tw_args>>
    /\ UNCHANGED notTw

\* response.status_code == 429: wait, then return self._call(endpoint,
\* params, method).
TwThrottled ==
    /\ tw_pc = "request"
    /\ TwResolve(tw_args).root \in TwRoots
    /\ \E until \in Resets(tw_now) :
         /\ tw_log' = Append(tw_log, TwLogRecord(tw_args, tw_now, "429", until))
         /\ tw_now' = WaitEnd(tw_now, until, TwSeconds(until))
    /\ \E cookie \in TwCookies : tw_csrf' = TwCsrf(tw_csrf, cookie)
    /\ tw_args' = TwRetryArgs(tw_args)
    /\ tw_pc' = IF Len(tw_log') < MaxTwRequests THEN "request" ELSE "capped"
    /\ UNCHANGED <<tw_first, tw_result>>
    /\ UNCHANGED notTw

\* Any other status: raise StopExtraction.
TwError ==
    /\ tw_pc = "request"
    /\ TwResolve(tw_args).root \in TwRoots
    /\ tw_log' = Append(tw_log, TwLogRecord(tw_args, tw_now, "error", NoReset))
    /\ \E cookie \in TwCookies : tw_csrf' = TwCsrf(tw_csrf, cookie)
    /\ tw_pc' = "stop"
    /\ tw_result' = "StopExtraction"
    /\ UNCHANGED <<tw_now, tw_first, tw_args>>
    /\ UNCHANGED notTw

\* self.extractor.request(root + endpoint, ...) with a root that is no URL
\* ("GET", "POST"): the request has no host to go to and raises.
TwInvalidUrl ==
    /\ tw_pc = "request"
    /\ TwResolve(tw_args).root \notin TwRoots
    /\ tw_log' = Append(tw_log, TwLogRecord(tw_args, tw_now, "none", NoReset))
    /\ tw_pc' = "http_error"
    /\ tw_result' = "HttpError"
    /\ UNCHANGED <<tw_now, tw_first, tw_args, tw_csrf>>
    /\ UNCHANGED notTw

TwNext ==
    \/ TwCall
    \/ TwSuccess
    \/ TwThrottled
    \/ TwError
    \/ TwInvalidUrl

-----------------------------------------------------------------------------
(***************************************************************************)
(* The event stream of one job: the messages that items() of an extractor  *)
(* yields, one action per yield.                                           *)
(***************************************************************************)

\* Items (deviations, tweets, posts) per job and files per item explored.
MaxItems == 2
MaxFiles == 2

EvSites == {"deviantart", "twitter", "nozomi", "imagehost", "myportfolio",
            "webtoons", "aryion", "paheal"}

\* items() yields Message.Version, 1 before its loop; AryionExtractor and
\* PahealExtractor yield none.
EvHasVersion(site) == site \notin {"aryion", "paheal"}

\* ImagehostImageExtractor, WebtoonsEpisodeExtractor and
\* MyportfolioGalleryExtractor handle one page; the others loop over the
\* items of deviations(), tweets(), posts(), get_posts().
EvItems(site) ==
    IF site \in {"imagehost", "webtoons", "myportfolio"} THEN 1 ELSE MaxItems

\* The loops with a `continue` (or an empty branch) before the Directory:
\* premium folders, filtered tweets and tweets without files, posts
\* answered with status >= 400, posts that cannot be parsed.
EvMaySkip(site) == site \in {"deviantart", "twitter", "nozomi", "aryion"}

\* The loops that yield Message.Queue for an item in place of a Directory:
\* a (url, data) tuple of deviations(), the project covers of a portfolio,
\* the posts of a folder.
EvMayQueue(site) == site \in {"deviantart", "myportfolio", "aryion"}

\* How many Message.Url follow the Directory of one item.
EvFileCounts(site) ==
    CASE site \in {"imagehost", "aryion", "paheal"} -> {1}
      [] site = "twitter" -> 1..MaxFiles
      [] OTHER -> 0..MaxFiles

\* The state after `yield Message.Version, 1`: the loop over the items.
EvAfterVersion_Again(site) == "start"
EvAfterVersion(site) == "next"

\* The item whose metadata a Message.Url carries: the object the Directory
\* before it was yielded with (deviation, tdata, post, data).
EvUrlGroup_Next(item) == item + 1
EvUrlGroup(item) == item

EvMessage(kind, item) == [kind |-> kind, item |-> item]

EvInit ==
    /\ ev_site \in EvSites
    /\ ev_pc = "start"
    /\ ev_item = 0
    /\ ev_files = 0
    /\ ev_urls = 0
    /\ ev_stream = <<>>

EvIdle ==
    /\ ev_site = "deviantart"
    /\ ev_pc = "idle"
    /\ ev_item = 0
    /\ ev_files = 0
    /\ ev_urls = 0
    /\ ev_stream = <<>>

\* yield Message.Version, 1
EvVersion ==
    /\ ev_pc = "start"
    /\ EvHasVersion(ev_site)
    /\ Len(ev_stream) < 1 + MaxItems * (MaxFiles + 2)
    /\ ev_stream' = Append(ev_stream, EvMessage("Version", 0))
    /\ ev_pc' = EvAfterVersion(ev_site)
    /\ UNCHANGED <<ev_site, ev_item, ev_files, ev_urls>>
    /\ UNCHANGED notEv

\* items() of an extractor without a Version message enters its loop.
EvNoVersion ==
    /\ ev_pc = "start"
    /\ ~EvHasVersion(ev_site)
    /\ ev_pc' = "next"
    /\ UNCHANGED <<ev_site, ev_item, ev_files, ev_urls, ev_stream>>
    /\ UNCHANGED notEv

\* continue: the item yields nothing.
EvSkip ==
    /\ ev_pc = "next"
    /\ ev_item < EvItems(ev_site)
    /\ EvMaySkip(ev_site)
    /\ ev_item' = ev_item + 1
    /\ UNCHANGED <<ev_site, ev_pc, ev_files, ev_urls, ev_stream>>
    /\ UNCHANGED notEv

\* yield Message.Queue, url, data for the item.
EvQueue ==
    /\ ev_pc = "next"
    /\ ev_item < EvItems(ev_site)
    /\ EvMayQueue(ev_site)
    /\ ev_item' = ev_item + 1
    /\ ev_stream' = Append(ev_stream, EvMessage("Queue", ev_item'))
    /\ UNCHANGED <<ev_site, ev_pc, ev_files, ev_urls>>
    /\ UNCHANGED notEv

\* yield Message.Directory, <item>
EvDirectory ==
    /\ ev_pc = "next"
    /\ ev_item < EvItems(ev_site)
    /\ ev_item' = ev_item + 1
    /\ ev_files' \in EvFileCounts(ev_site)
    /\ ev_urls' = 0
    /\ ev_stream' = Append(ev_stream, EvMessage("Directory", ev_item'))
    /\ ev_pc' = "urls"
    /\ UNCHANGED ev_site
    /\ UNCHANGED notEv

\* yield Message.Url, url, <item>
EvUrl ==
    /\ ev_pc = "urls"
    /\ ev_urls < ev_files
    /\ ev_urls' = ev_urls + 1
    /\ ev_stream' = Append(ev_stream, EvMessage("Url", EvUrlGroup(ev_item)))
    /\ UNCHANGED <<ev_site, ev_pc, ev_item, ev_files>>
    /\ UNCHANGED notEv

\* DeviantartExtractor with extra: yield Message.Queue, url, deviation for
\* a sta.sh link in the description, after the files of the deviation.
EvQueueAfter ==
    /\ ev_pc = "urls"
    /\ ev_urls = ev_files
    /\ ev_site = "deviantart"
    /\ ev_stream' = Append(ev_stream, EvMessage("Queue", ev_item))
    /\ ev_pc' = "next"
    /\ UNCHANGED <<ev_site, ev_item, ev_files, ev_urls>>
    /\ UNCHANGED notEv

\* The files of the item are done: the loop goes on.
EvEndItem ==
    /\ ev_pc = "urls"
    /\ ev_urls = ev_files
    /\ ev_pc' = "next"
    /\ UNCHANGED <<ev_site, ev_item, ev_files, ev_urls, ev_stream>>
    /\ UNCHANGED notEv

\* The source of items is exhausted: items() returns.
EvDone ==
    /\ ev_pc = "next"
    /\ ev_pc' = "done"
    /\ UNCHANGED <<ev_site, ev_item, ev_files, ev_urls, ev_stream>>
    /\ UNCHANGED notEv

EvNext ==
    \/ EvVersion
    \/ EvNoVersion
    \/ EvSkip
    \/ EvQueue
    \/ EvDirectory
    \/ EvUrl
    \/ EvQueueAfter
    \/ EvEndItem
    \/ EvDone

-----------------------------------------------------------------------------
(***************************************************************************)
(* Dispatch of a Queue message: SankakuBooksExtractor.items and            *)
(* MyportfolioGalleryExtractor.items yield (Message.Queue, url, data), the *)
(* dispatcher runs the nested job with data as metadata defaults.          *)
(***************************************************************************)

MdKeys == {"owner", "title", "lang"}
MdValues == {"alice", "bob", "x", "en"}

\* All metadata maps over the keys explored.
Metadata == UNION {[S -> MdValues] : S \in SUBSET MdKeys}
NoMetadata == [k \in {} |-> "x"]

\* The extractors that yield Queue messages, and the class each one puts
\* into data["_extractor"].
QdSites == {"sankaku-books", "myportfolio"}
QdNestedClass(site) ==
    IF site = "sankaku-books" THEN "SankakuPoolExtractor"
    ELSE "MyportfolioGalleryExtractor"

\* The metadata yielded with the Queue message next to "_extractor": the
\* pool object of the API for Sankaku, nothing for MyPortfolio.
QdSeeds(site) == IF site = "sankaku-books" THEN Metadata ELSE {NoMetadata}

\* Seed metadata as defaults: the nested extractor's keys with its values,
\* and the seed's value for every key the nested extractor does not set.
Merge_SeedWins(seed, nested) ==
    [k \in DOMAIN seed \cup DOMAIN nested |->
        IF k \in DOMAIN seed THEN seed[k] ELSE nested[k]]
Merge(seed, nested) ==
    [k \in DOMAIN seed \cup DOMAIN nested |->
        IF k \in DOMAIN nested THEN nested[k] ELSE seed[k]]

QdInit ==
    /\ qd_site \in QdSites
    /\ qd_pc = "emit"
    /\ qd_extractor = ""
    /\ qd_seed = NoMetadata
    /\ qd_nested = NoMetadata
    /\ qd_final = NoMetadata

QdIdle ==
    /\ qd_site = "myportfolio"
    /\ qd_pc = "idle"
    /\ qd_extractor = ""
    /\ qd_seed = NoMetadata
    /\ qd_nested = NoMetadata
    /\ qd_final = NoMetadata

\* pool["_extractor"] = SankakuPoolExtractor; yield Message.Queue, url, pool
\* data = {"_extractor": MyportfolioGalleryExtractor};
\* yield Message.Queue, base + path, data
QdQueue ==
    /\ qd_pc = "emit"
    /\ qd_extractor' = QdNestedClass(qd_site)
    /\ qd_seed' \in QdSeeds(qd_site)
    /\ qd_pc' = "queued"
    /\ UNCHANGED <<qd_site, qd_nested, qd_final>>
    /\ UNCHANGED notQd

\* The dispatcher runs the nested job: the nested extractor produces its
\* metadata, the seed is merged in as defaults.
QdDispatch ==
    /\ qd_pc = "queued"
    /\ qd_nested' \in Metadata
    /\ qd_final' = Merge(qd_seed, qd_nested')
    /\ qd_pc' = "merged"
    /\ UNCHANGED <<qd_site, qd_extractor, qd_seed>>
    /\ UNCHANGED notQd

QdNext ==
    \/ QdQueue
    \/ QdDispatch

-----------------------------------------------------------------------------
(* DeviantartOAuthAPI._pagination, _pagination_folders and                 *)
(* DeviantartEclipseAPI._pagination.  The metadata and folder requests of  *)
(* an extended page (_metadata, _folders) belong to the page they extend   *)
(* and are not listed as requests of their own.                            *)

\* Number of API requests one enumeration may issue.
MaxDpFetches == 3
\* Largest params["limit"].
MaxLimit == 2

DpApis == {"oauth", "eclipse"}

\* json null, for next_offset of the last page
NoOffset == -1

\* The offsets the server may name as the next one: the item after the page,
\* or one further when an item was withdrawn meanwhile.
DpNextOffsets(offset, limit) == {offset + limit, offset + limit + 1}

\* The results of one answer: n items, each known by its position in the
\* listing and by the request that fetched it.
DpResults(offset, n, fetch) ==
    [i \in 1..n |-> [position |-> offset + i, fetch |-> fetch]]

\* if extend: if public and len(data["results"]) < params["limit"]:
\*     if self.refresh_token_key:
DpSwitches_Never(api, extend, public, refresh, n, limit) == FALSE
DpSwitches(api, extend, public, refresh, n, limit) ==
    api = "oauth" /\ extend /\ public /\ n < limit /\ refresh

\* params["offset"] = data["next_offset"]
DpAdvanceOffset_ByLimit(offset, limit, next_offset) == offset + limit
DpAdvanceOffset(offset, limit, next_offset) == next_offset

\* `yield from data["results"]` has handed over every item of the page.
DpPageUsedUp_Prefetch(pos, n) == pos >= n
DpPageUsedUp(pos, n) == pos > n

\* Where the enumeration goes when the generator returns: the list of
\* _pagination_folders is complete and handed to the caller.
DpReturn(folders) == IF folders THEN "deliver" ELSE "done"

\* What is kept of every API request: `kept` is the number of items the
\* answer hands to `yield from`.
DpFetchRecord(kind, n, more, next) ==
    [offset |-> dp_offset, public |-> dp_public, kind |-> kind, size |-> n,
     has_more |-> more, next_offset |-> next,
     kept |-> IF kind = "results" THEN n ELSE 0, received |-> Len(dp_out)]

DpInit ==
    /\ dp_api \in DpApis
    /\ dp_folders \in IF dp_api = "oauth" THEN BOOLEAN ELSE {FALSE}
    /\ dp_extend \in IF dp_api = "oauth" /\ ~dp_folders THEN BOOLEAN ELSE {FALSE}
    /\ dp_refresh \in IF dp_api = "oauth" THEN BOOLEAN ELSE {FALSE}
    /\ dp_public \in IF dp_api = "oauth" /\ ~dp_folders THEN BOOLEAN ELSE {TRUE}
    /\ dp_limit \in 1..MaxLimit
    /\ dp_offset = 0
    /\ dp_pc = "call"
    /\ dp_data = <<>>
    /\ dp_has_more = FALSE
    /\ dp_next_offset = NoOffset
    /\ dp_pos = 1
    /\ dp_result = <<>>
    /\ dp_out = <<>>
    /\ dp_fetches = <<>>
    /\ dp_log = <<>>

DpIdle ==
    /\ dp_api = "oauth"
    /\ dp_folders = FALSE
    /\ dp_extend = FALSE
    /\ dp_refresh = FALSE
    /\ dp_public = TRUE
    /\ dp_limit = 1
    /\ dp_offset = 0
    /\ dp_pc = "idle"
    /\ dp_data = <<>>
    /\ dp_has_more = FALSE
    /\ dp_next_offset = NoOffset
    /\ dp_pos = 1
    /\ dp_result = <<>>
    /\ dp_out = <<>>
    /\ dp_fetches = <<>>
    /\ dp_log = <<>>

\* data = self._call(endpoint, params): an answer with results that are
\* kept; `yield from data["results"]` comes next.
DpPage ==
    /\ dp_pc = "call"
    /\ Len(dp_fetches) < MaxDpFetches
    /\ \E n \in 0..dp_limit, more \in BOOLEAN :
         /\ ~DpSwitches(dp_api, dp_extend, dp_public, dp_refresh, n, dp_limit)
         /\ dp_data' = DpResults(dp_offset, n, Len(dp_fetches) + 1)
         /\ dp_has_more' = more
         /\ dp_next_offset' \in
              IF more THEN DpNextOffsets(dp_offset, dp_limit) ELSE {NoOffset}
         /\ dp_fetches' = Append(dp_fetches,
              DpFetchRecord("results", n, more, dp_next_offset'))
    /\ dp_pos' = 1
    /\ dp_pc' = "yield"
    /\ UNCHANGED <<dp_api, dp_folders, dp_extend, dp_refresh, dp_public,
                   dp_limit, dp_offset, dp_result, dp_out, dp_log>>
    /\ UNCHANGED notDp

\* A public page with fewer results than the limit while a refresh token is
\* configured: public = False; continue.
DpSwitch ==
    /\ dp_pc = "call"
    /\ Len(dp_fetches) < MaxDpFetches
    /\ \E n \in 0..dp_limit, more \in BOOLEAN :
         /\ DpSwitches(dp_api, dp_extend, dp_public, dp_refresh, n, dp_limit)
         /\ \E next \in IF more THEN DpNextOffsets(dp_offset, dp_limit)
                                  ELSE {NoOffset} :
              dp_fetches' = Append(dp_fetches,
                 DpFetchRecord("discarded", n, more, next))
    /\ dp_public' = FALSE
    /\ UNCHANGED <<dp_api, dp_folders, dp_extend, dp_refresh, dp_limit,
                   dp_offset, dp_pc, dp_data, dp_has_more, dp_next_offset,
                   dp_pos, dp_result, dp_out, dp_log>>
    /\ UNCHANGED notDp

\* OAuth: if "results" not in data: self.log.error(...); return
DpUnexpected ==
    /\ dp_pc = "call"
    /\ dp_api = "oauth"
    /\ Len(dp_fetches) < MaxDpFetches
    /\ dp_fetches' = Append(dp_fetches,
         DpFetchRecord("no_results", 0, FALSE, NoOffset))
    /\ dp_log' = Append(dp_log, "Unexpected API response")
    /\ dp_pc' = DpReturn(dp_folders)
    /\ UNCHANGED <<dp_api, dp_folders, dp_extend, dp_refresh, dp_public,
                   dp_limit, dp_offset, dp_data, dp_has_more, dp_next_offset,
                   dp_pos, dp_result, dp_out>>
    /\ UNCHANGED notDp

\* Eclipse: _call returns the json document, or {"error": response.text}
\* for a body that is no json; data["results"] raises KeyError.
DpKeyError ==
    /\ dp_pc = "call"
    /\ dp_api = "eclipse"
    /\ Len(dp_fetches) < MaxDpFetches
    /\ dp_fetches' = Append(dp_fetches,
         DpFetchRecord("no_results", 0, FALSE, NoOffset))
    /\ dp_pc' = "key_error"
    /\ UNCHANGED <<dp_api, dp_folders, dp_extend, dp_refresh, dp_public,
                   dp_limit, dp_offset, dp_data, dp_has_more, dp_next_offset,
                   dp_pos, dp_result, dp_out, dp_log>>
    /\ UNCHANGED notDp

\* StopExtraction leaves _call, _pagination and items().
DpOn404_Retry == "call"
DpOn404 == "stop"

\* Eclipse: if response.status_code == 404: raise exception.StopExtraction
DpStop ==
    /\ dp_pc = "call"
    /\ dp_api = "eclipse"
    /\ Len(dp_fetches) < MaxDpFetches
    /\ dp_fetches' = Append(dp_fetches, DpFetchRecord("404", 0, FALSE, NoOffset))
    /\ dp_pc' = DpOn404
    /\ UNCHANGED <<dp_api, dp_folders, dp_extend, dp_refresh, dp_public,
                   dp_limit, dp_offset, dp_data, dp_has_more, dp_next_offset,
                   dp_pos, dp_result, dp_out, dp_log>>
    /\ UNCHANGED notDp

\* yield from data["results"]: the consumer pulls one more item.
DpYield ==
    /\ dp_pc = "yield"
    /\ ~dp_folders
    /\ ~DpPageUsedUp(dp_pos, Len(dp_data))
    /\ dp_out' = Append(dp_out, dp_data[dp_pos])
    /\ dp_pos' = dp_pos + 1
    /\ UNCHANGED <<dp_api, dp_folders, dp_extend, dp_refresh, dp_public,
                   dp_limit, dp_offset, dp_pc, dp_data, dp_has_more,
                   dp_next_offset, dp_result, dp_fetches, dp_log>>
    /\ UNCHANGED notDp

\* result.extend(self._pagination(endpoint, params, False)): the list takes
\* one more item.
DpExtend ==
    /\ dp_pc = "yield"
    /\ dp_folders
    /\ ~DpPageUsedUp(dp_pos, Len(dp_data))
    /\ dp_result' = Append(dp_result, dp_data[dp_pos])
    /\ dp_pos' = dp_pos + 1
    /\ UNCHANGED <<dp_api, dp_folders, dp_extend, dp_refresh, dp_public,
                   dp_limit, dp_offset, dp_pc, dp_data, dp_has_more,
                   dp_next_offset, dp_out, dp_fetches, dp_log>>
    /\ UNCHANGED notDp

\* The page is used up: return when has_more is false, else
\* params["offset"] = data["next_offset"].
DpAdvance ==
    /\ dp_pc = "yield"
    /\ DpPageUsedUp(dp_pos, Len(dp_data))
    /\ IF ~dp_has_more
         THEN dp_pc' = DpReturn(dp_folders) /\ dp_offset' = dp_offset
         ELSE /\ dp_pc' = "call"
              /\ dp_offset' =
                   DpAdvanceOffset(dp_offset, dp_limit, dp_next_offset)
    /\ UNCHANGED <<dp_api, dp_folders, dp_extend, dp_refresh, dp_public,
                   dp_limit, dp_data, dp_has_more, dp_next_offset, dp_pos,
                   dp_result, dp_out, dp_fetches, dp_log>>
    /\ UNCHANGED notDp

\* The caller of gallery_folders / collections_folders walks the list.
DpDeliver ==
    /\ dp_pc = "deliver"
    /\ Len(dp_out) < Len(dp_result)
    /\ dp_out' = Append(dp_out, dp_result[Len(dp_out) + 1])
    /\ UNCHANGED <<dp_api, dp_folders, dp_extend, dp_refresh, dp_public,
                   dp_limit, dp_offset, dp_pc, dp_data, dp_has_more,
                   dp_next_offset, dp_pos, dp_result, dp_fetches, dp_log>>
    /\ UNCHANGED notDp

DpNext ==
    \/ DpPage \/ DpSwitch \/ DpUnexpected \/ DpKeyError \/ DpStop
    \/ DpYield \/ DpExtend \/ DpAdvance \/ DpDeliver

-----------------------------------------------------------------------------
(* PahealTagExtractor.get_posts and AryionExtractor._pagination: the next  *)
(* page is asked for as long as the page at hand links to one.             *)

\* Number of pages after which the site shows no "Next" link.
MaxNlPages == 3
\* Most items on one page.
MaxNlItems == 2

NlSites == {"paheal", "aryion"}

\* ">Next<" not in page; page.find("Next &gt;&gt;") < 0
NoLink == 0

\* The "Next" link a page may carry.
NlLinks(url) == IF url < MaxNlPages THEN {NoLink, url + 1} ELSE {NoLink}

\* The page asked for next: Paheal counts (pnum += 1), Aryion follows the
\* href in front of "Next &gt;&gt;".
NlFollow(site, url, link) == IF site = "paheal" THEN url + 1 ELSE link

NlInit ==
    /\ nl_site \in NlSites
    /\ nl_url = 1
    /\ nl_pc = "request"
    /\ nl_page = <<>>
    /\ nl_link = NoLink
    /\ nl_pos = 1
    /\ nl_out = <<>>
    /\ nl_fetches = <<>>

NlIdle ==
    /\ nl_site = "paheal"
    /\ nl_url = 1
    /\ nl_pc = "idle"
    /\ nl_page = <<>>
    /\ nl_link = NoLink
    /\ nl_pos = 1
    /\ nl_out = <<>>
    /\ nl_fetches = <<>>

\* page = self.request(url).text
NlRequest ==
    /\ nl_pc = "request"
    /\ \E n \in 0..MaxNlItems :
         /\ nl_page' = [i \in 1..n |-> [page |-> nl_url, index |-> i]]
         /\ nl_fetches' =
              Append(nl_fetches,
                     [url |-> nl_url, kept |-> n, received |-> Len(nl_out)])
    /\ nl_link' \in NlLinks(nl_url)
    /\ nl_pos' = 1
    /\ nl_pc' = "yield"
    /\ UNCHANGED <<nl_site, nl_url, nl_out>>
    /\ UNCHANGED notNl

\* yield self._extract_data(post); yield from text.extract_iter(...): the
\* consumer pulls one more item.
NlYield ==
    /\ nl_pc = "yield"
    /\ nl_pos <= Len(nl_page)
    /\ nl_out' = Append(nl_out, nl_page[nl_pos])
    /\ nl_pos' = nl_pos + 1
    /\ UNCHANGED <<nl_site, nl_url, nl_pc, nl_page, nl_link, nl_fetches>>
    /\ UNCHANGED notNl

\* The page is used up: return without a "Next" link, else go on.
NlAdvance ==
    /\ nl_pc = "yield"
    /\ nl_pos > Len(nl_page)
    /\ IF nl_link = NoLink
         THEN nl_pc' = "done" /\ nl_url' = nl_url
         ELSE nl_pc' = "request" /\ nl_url' = NlFollow(nl_site, nl_url, nl_link)
    /\ UNCHANGED <<nl_site, nl_page, nl_link, nl_pos, nl_out, nl_fetches>>
    /\ UNCHANGED notNl

NlNext == NlRequest \/ NlYield \/ NlAdvance

-----------------------------------------------------------------------------
(* The metadata of Directory and Url events: items() of NozomiExtractor,   *)
(* TwitterExtractor and PahealExtractor join the fields of the item with   *)
(* the result of metadata() / get_metadata().                              *)

\* Number of items one job yields.
MaxPosts == 2

MpSites == {"nozomi", "twitter", "paheal"}
MpKeys == {"search_tags", "search", "id"}
MpValues == {"a", "b"}

\* The fields an item may arrive with.
MpItems == UNION {[S -> MpValues] : S \in SUBSET MpKeys}

\* The key metadata() computes: {"search_tags": self.tags} for Nozomi and
\* Paheal, {"search": ...} for Twitter; the base classes return {}.
MpHandlerKey(site) == IF site = "twitter" THEN "search" ELSE "search_tags"
MpHandlerData(site) ==
    {NoMetadata} \cup {[k \in {MpHandlerKey(site)} |-> v] : v \in MpValues}

\* dict.update: d.update(other)
Update(d, other) ==
    [k \in DOMAIN d \cup DOMAIN other |->
        IF k \in DOMAIN other THEN other[k] ELSE d[k]]

\* The metadata of the Url event: post["url"] = url and nameext_from_url
\* (Nozomi, Paheal) set keys of the file; file.update(tdata) (Twitter) lays
\* the metadata of the tweet over the fields of the file.
MpUrlData(site, post) ==
    IF site = "twitter"
      THEN Update([k \in {"filename"} |-> "f"], post)
      ELSE Update(post, [k \in {"filename"} |-> "f"])

MpInit ==
    /\ mp_site \in MpSites
    /\ mp_pc = "metadata"
    /\ mp_data = NoMetadata
    /\ mp_item = NoMetadata
    /\ mp_post = NoMetadata
    /\ mp_stream = <<>>

MpIdle ==
    /\ mp_site = "nozomi"
    /\ mp_pc = "idle"
    /\ mp_data = NoMetadata
    /\ mp_item = NoMetadata
    /\ mp_post = NoMetadata
    /\ mp_stream = <<>>

\* data = self.metadata()
MpMetadata ==
    /\ mp_pc = "metadata"
    /\ mp_data' \in MpHandlerData(mp_site)
    /\ mp_pc' = "post"
    /\ UNCHANGED <<mp_site, mp_item, mp_post, mp_stream>>
    /\ UNCHANGED notMp

\* The next item: post.update(data); yield Message.Directory, post
MpDirectory ==
    /\ mp_pc = "post"
    /\ Len(mp_stream) < 2 * MaxPosts
    /\ \E item \in MpItems :
         /\ mp_item' = item
         /\ mp_post' = Update(item, mp_data)
         /\ mp_stream' = Append(mp_stream,
              [kind |-> "Directory", item |-> item,
               data |-> Update(item, mp_data)])
    /\ mp_pc' = "url"
    /\ UNCHANGED <<mp_site, mp_data>>
    /\ UNCHANGED notMp

\* yield Message.Url, url, post
MpUrl ==
    /\ mp_pc = "url"
    /\ mp_stream' = Append(mp_stream,
         [kind |-> "Url", item |-> mp_item,
          data |-> MpUrlData(mp_site, mp_post)])
    /\ mp_pc' = "post"
    /\ UNCHANGED <<mp_site, mp_data, mp_item, mp_post>>
    /\ UNCHANGED notMp

\* The enumeration of the items ends.
MpDone ==
    /\ mp_pc = "post"
    /\ mp_pc' = "done"
    /\ UNCHANGED <<mp_site, mp_data, mp_item, mp_post, mp_stream>>
    /\ UNCHANGED notMp

MpNext == MpMetadata \/ MpDirectory \/ MpUrl \/ MpDone

-----------------------------------------------------------------------------
(* WebtoonsExtractor.request and the episode list of                       *)
(* WebtoonsComicExtractor.items.                                           *)

\* Number of list pages after which no further page is linked.
MaxWtPages == 3
\* Most episodes on one list page.
MaxEpisodes == 2

\* if response.history and "/ageGate" in response.request.url
WtRedirected(history, url) == history /\ url = "/ageGate"

\* The final URLs a request may end at, and whether it got there through
\* redirects.
WtFinalUrls == {"/list", "/ageGate"}

\* self.page_no = int(query.get("page", 1)): the page numbers a locator
\* may start at.
WtStartPages == {1, 2}

\* Variant: the list is read until a request fails.
WtReturns_Never(text, linked) == FALSE

\* if page and path not in page: return
WtReturns(text, linked) == text /\ ~linked

WtInit ==
    /\ wt_page_no \in WtStartPages
    /\ wt_pc = "request"
    /\ wt_urls = <<>>
    /\ wt_linked = FALSE
    /\ wt_pos = 1
    /\ wt_out = <<>>
    /\ wt_fetches = <<>>

WtIdle ==
    /\ wt_page_no = 1
    /\ wt_pc = "idle"
    /\ wt_urls = <<>>
    /\ wt_linked = FALSE
    /\ wt_pos = 1
    /\ wt_out = <<>>
    /\ wt_fetches = <<>>

\* page = self.request(self.root + path).text: the response is returned,
\* its text holds the episode list and perhaps the path of the next page.
WtRequest ==
    /\ wt_pc = "request"
    /\ \E history \in BOOLEAN, url \in WtFinalUrls, n \in 0..MaxEpisodes,
          linked \in BOOLEAN :
         /\ ~WtRedirected(history, url)
         /\ linked => wt_page_no < MaxWtPages
         /\ wt_urls' = [i \in 1..n |-> [page |-> wt_page_no, index |-> i]]
         /\ wt_linked' = linked
         /\ wt_fetches' = Append(wt_fetches,
              [page |-> wt_page_no, history |-> history, url |-> url,
               list |-> TRUE, linked |-> linked, size |-> n])
    /\ wt_pos' = 1
    /\ wt_pc' = "yield"
    /\ UNCHANGED <<wt_page_no, wt_out>>
    /\ UNCHANGED notWt

\* The text of the response (an empty one too) holds no episode list:
\* text.extract finds nothing and get_episode_urls fails on its result.
WtNoList ==
    /\ wt_pc = "request"
    /\ \E history \in BOOLEAN, url \in WtFinalUrls :
         /\ ~WtRedirected(history, url)
         /\ wt_fetches' = Append(wt_fetches,
              [page |-> wt_page_no, history |-> history, url |-> url,
               list |-> FALSE, linked |-> FALSE, size |-> 0])
    /\ wt_pc' = "error"
    /\ UNCHANGED <<wt_page_no, wt_urls, wt_linked, wt_pos, wt_out>>
    /\ UNCHANGED notWt

\* The request was redirected to the age gate: raise StopExtraction.
WtAgeGate ==
    /\ wt_pc = "request"
    /\ \E history \in BOOLEAN, url \in WtFinalUrls :
         /\ WtRedirected(history, url)
         /\ wt_fetches' = Append(wt_fetches,
              [page |-> wt_page_no, history |-> history, url |-> url,
               list |-> FALSE, linked |-> FALSE, size |-> 0])
    /\ wt_pc' = "stop"
    /\ UNCHANGED <<wt_page_no, wt_urls, wt_linked, wt_pos, wt_out>>
    /\ UNCHANGED notWt

\* yield Message.Queue, url, data
WtYield ==
    /\ wt_pc = "yield"
    /\ wt_pos <= Len(wt_urls)
    /\ wt_out' = Append(wt_out, wt_urls[wt_pos])
    /\ wt_pos' = wt_pos + 1
    /\ UNCHANGED <<wt_page_no, wt_pc, wt_urls, wt_linked, wt_fetches>>
    /\ UNCHANGED notWt

\* self.page_no += 1; if page and path not in page: return
WtAdvance ==
    /\ wt_pc = "yield"
    /\ wt_pos > Len(wt_urls)
    /\ wt_page_no' = wt_page_no + 1
    /\ wt_pc' = IF WtReturns(TRUE, wt_linked) THEN "done" ELSE "request"
    /\ UNCHANGED <<wt_urls, wt_linked, wt_pos, wt_out, wt_fetches>>
    /\ UNCHANGED notWt

WtNext == WtRequest \/ WtNoList \/ WtAgeGate \/ WtYield \/ WtAdvance

-----------------------------------------------------------------------------
(* TwitterAPI._pagination: the timeline is read page by page, the cursor    *)
(* of the next page comes out of the instructions of the page at hand.      *)

\* Number of requests one timeline may take.
MaxTpRequests == 2
\* Most tweet entries of one page whose id is found in globalObjects.
MaxTweets == 1

\* cursor = None; also the value of an absent replaceEntry
NoCursor == "None"
\* The cursor values an answer may carry; the empty string is falsy.
TpCursorValues == {"", "c1", "c2"}

\* The bottom cursor among the entries of addEntries: none, or its value
\* and its stopOnEmptyResponse mark.
NoBottom == [present |-> FALSE, value |-> NoCursor, stop |-> FALSE]
TpBottoms ==
    {NoBottom} \cup
    [present : {TRUE}, value : TpCursorValues, stop : BOOLEAN]

\* The answers of the server: whether timeline.instructions is non-empty,
\* whether its last instruction is a pinEntry or a replaceEntry (and the
\* cursor value of the latter), the bottom cursor, and the number of tweet
\* entries found in globalObjects.
TpAnswers ==
    [instructions : BOOLEAN, pin : BOOLEAN,
     replace : TpCursorValues \cup {NoCursor},
     bottom : TpBottoms, resolved : 0..MaxTweets]

\* An answer is well formed: nothing but instructions when there are none,
\* and instr[-1] is one instruction, a pinEntry or a replaceEntry.
TpWellFormed(a) ==
    /\ ~a.instructions =>
         (~a.pin /\ a.replace = NoCursor /\ a.bottom = NoBottom
          /\ a.resolved = 0)
    /\ ~(a.pin /\ a.replace # NoCursor)

\* The tweet ids collected from an answer: the pinned one while
\* pinned_tweet is set, then the entries.
TpTweetIds(a, pinned, request) ==
    (IF pinned /\ a.pin THEN <<[request |-> request, entry |-> 0]>> ELSE <<>>)
    \o [i \in 1..a.resolved |-> [request |-> request, entry |-> i]]

\* The variable `tweet` after the two loops: True from a bottom cursor
\* without stopOnEmptyResponse, or the last tweet found.
TpTweet(a, ids) ==
    (a.bottom.present /\ ~a.bottom.stop) \/ ids # <<>>

\* The variable `cursor` after "update cursor value".
TpCursor(a) ==
    IF a.replace # NoCursor THEN a.replace ELSE a.bottom.value

\* Variant: only a missing cursor ends the enumeration.
TpReturns_CursorOnly(a, ids) ==
    ~(TpCursor(a) \notin {NoCursor, ""})

\* if not cursor or not tweet: return
TpReturns(a, ids) ==
    ~(TpCursor(a) \notin {NoCursor, ""}) \/ ~TpTweet(a, ids)

TpInit ==
    /\ tp_pc = "request"
    /\ tp_cursor = NoCursor
    /\ tp_pinned = TRUE
    /\ tp_tweets = <<>>
    /\ tp_pos = 1
    /\ tp_out = <<>>
    /\ tp_log = <<>>

TpIdle ==
    /\ tp_pc = "idle"
    /\ tp_cursor = NoCursor
    /\ tp_pinned = TRUE
    /\ tp_tweets = <<>>
    /\ tp_pos = 1
    /\ tp_out = <<>>
    /\ tp_log = <<>>

\* data = self._call(endpoint, params) with instructions: the tweet ids and
\* the cursor are collected, the tweets are about to be yielded.
TpPage ==
    /\ tp_pc = "request"
    /\ Len(tp_log) < MaxTpRequests
    /\ \E a \in TpAnswers :
         /\ TpWellFormed(a)
         /\ a.instructions
         /\ tp_tweets' = TpTweetIds(a, tp_pinned, Len(tp_log) + 1)
         /\ tp_log' = Append(tp_log,
              [cursor |-> tp_cursor, pinned |-> tp_pinned, answer |-> a])
    /\ tp_pinned' = FALSE
    /\ tp_pos' = 1
    /\ tp_pc' = "yield"
    /\ UNCHANGED <<tp_cursor, tp_out>>
    /\ UNCHANGED notTp

\* if not instr: return
TpEmpty ==
    /\ tp_pc = "request"
    /\ Len(tp_log) < MaxTpRequests
    /\ \E a \in TpAnswers :
         /\ TpWellFormed(a)
         /\ ~a.instructions
         /\ tp_log' = Append(tp_log,
              [cursor |-> tp_cursor, pinned |-> tp_pinned, answer |-> a])
    /\ tp_pc' = "done"
    /\ UNCHANGED <<tp_cursor, tp_pinned, tp_tweets, tp_pos, tp_out>>
    /\ UNCHANGED notTp

\* yield tweet: the consumer pulls one more tweet.
TpYield ==
    /\ tp_pc = "yield"
    /\ tp_pos <= Len(tp_tweets)
    /\ tp_out' = Append(tp_out, tp_tweets[tp_pos])
    /\ tp_pos' = tp_pos + 1
    /\ UNCHANGED <<tp_pc, tp_cursor, tp_pinned, tp_tweets, tp_log>>
    /\ UNCHANGED notTp

\* The page is used up: the cursor is updated; return without a cursor or
\* without a tweet, else params["cursor"] = cursor.
TpAdvance ==
    /\ tp_pc = "yield"
    /\ tp_pos > Len(tp_tweets)
    /\ LET a == tp_log[Len(tp_log)].answer
       IN IF TpReturns(a, tp_tweets)
            THEN tp_pc' = "done" /\ tp_cursor' = tp_cursor
            ELSE tp_pc' = "request" /\ tp_cursor' = TpCursor(a)
    /\ UNCHANGED <<tp_pinned, tp_tweets, tp_pos, tp_out, tp_log>>
    /\ UNCHANGED notTp

TpNext == TpPage \/ TpEmpty \/ TpYield \/ TpAdvance

-----------------------------------------------------------------------------
(* AryionExtractor.items with _parse_post and _pagination, and             *)
(* AryionGalleryExtractor.skip and posts.                                  *)

\* Most posts of a listing.
MaxArPosts == 2
\* Most pages of a folder, and most entries on one of them.
MaxArPages == 2
MaxArEntries == 1
\* Largest number of items the consumer asks to skip.
MaxSkip == 2

\* skip() has not been called.
NoSkip == -1

\* What the HEAD request of a post answers: a status of 400 or more, one of
\* the three folder content-types, or the headers of a file.
ArAnswers == {"failed", "folder", "file"}

\* Variant: a failed HEAD request is taken for a folder.
ParsePost_FailedIsFolder(answer) ==
    CASE answer = "file" -> "post"
      [] OTHER -> "False"

\* _parse_post: None after a failed HEAD request, False for a folder, the
\* metadata of the post otherwise.
ParsePost(answer) ==
    CASE answer = "failed" -> "None"
      [] answer = "folder" -> "False"
      [] OTHER -> "post"

\* elif post is False and self.recursive
ArRecurses(post, recursive) == post = "False" /\ recursive

\* AryionGalleryExtractor.skip: what it returns.
ArSkipReturn(num, recursive) == IF recursive THEN 0 ELSE num

ArInit ==
    /\ ar_pc = "start"
    /\ ar_recursive \in BOOLEAN
    /\ ar_posts \in SeqsUpTo(ArAnswers, MaxArPosts)
    /\ ar_offset = 0
    /\ ar_skipped = NoSkip
    /\ ar_pos = 1
    /\ ar_page = 0
    /\ ar_entries = <<>>
    /\ ar_more = FALSE
    /\ ar_epos = 1
    /\ ar_listed = <<>>
    /\ ar_out = <<>>

ArIdle ==
    /\ ar_pc = "idle"
    /\ ar_recursive = FALSE
    /\ ar_posts = <<>>
    /\ ar_offset = 0
    /\ ar_skipped = NoSkip
    /\ ar_pos = 1
    /\ ar_page = 0
    /\ ar_entries = <<>>
    /\ ar_more = FALSE
    /\ ar_epos = 1
    /\ ar_listed = <<>>
    /\ ar_out = <<>>

\* skip(num), called by the consumer before it iterates over the items.
ArSkip ==
    /\ ar_pc = "start"
    /\ ar_skipped = NoSkip
    /\ \E num \in 0..MaxSkip :
         /\ ar_skipped' = ArSkipReturn(num, ar_recursive)
         /\ ar_offset' = ar_offset + ArSkipReturn(num, ar_recursive)
    /\ UNCHANGED <<ar_pc, ar_recursive, ar_posts, ar_pos, ar_page, ar_entries,
                   ar_more, ar_epos, ar_listed, ar_out>>
    /\ UNCHANGED notAr

\* items() starts: posts() is the listing, advanced by self.offset when
\* the extractor is not recursive.
ArItems ==
    /\ ar_pc = "start"
    /\ ar_pos' = (IF ar_recursive THEN 0 ELSE ar_offset) + 1
    /\ ar_pc' = "posts"
    /\ UNCHANGED <<ar_recursive, ar_posts, ar_offset, ar_skipped, ar_page,
                   ar_entries, ar_more, ar_epos, ar_listed, ar_out>>
    /\ UNCHANGED notAr

\* A post that yields nothing: its HEAD request failed (a warning is
\* logged), or it is a folder and the extractor is not recursive.
ArNothing ==
    /\ ar_pc = "posts"
    /\ ar_pos <= Len(ar_posts)
    /\ LET post == ParsePost(ar_posts[ar_pos])
       IN post # "post" /\ ~ArRecurses(post, ar_recursive)
    /\ ar_pos' = ar_pos + 1
    /\ UNCHANGED <<ar_pc, ar_recursive, ar_posts, ar_offset, ar_skipped,
                   ar_page, ar_entries, ar_more, ar_epos, ar_listed, ar_out>>
    /\ UNCHANGED notAr

\* yield Message.Directory, post
ArDirectory ==
    /\ ar_pc = "posts"
    /\ ar_pos <= Len(ar_posts)
    /\ ParsePost(ar_posts[ar_pos]) = "post"
    /\ ar_out' = Append(ar_out,
         [kind |-> "Directory", post |-> ar_pos, page |-> 0, entry |-> 0,
          extractor |-> "none"])
    /\ ar_pc' = "url"
    /\ UNCHANGED <<ar_recursive, ar_posts, ar_offset, ar_skipped, ar_pos,
                   ar_page, ar_entries, ar_more, ar_epos, ar_listed>>
    /\ UNCHANGED notAr

\* yield Message.Url, post["url"], post
ArUrl ==
    /\ ar_pc = "url"
    /\ ar_out' = Append(ar_out,
         [kind |-> "Url", post |-> ar_pos, page |-> 0, entry |-> 0,
          extractor |-> "none"])
    /\ ar_pos' = ar_pos + 1
    /\ ar_pc' = "posts"
    /\ UNCHANGED <<ar_recursive, ar_posts, ar_offset, ar_skipped, ar_page,
                   ar_entries, ar_more, ar_epos, ar_listed>>
    /\ UNCHANGED notAr

\* A folder in recursive mode: _pagination(base + post_id) is entered.
ArFolder ==
    /\ ar_pc = "posts"
    /\ ar_pos <= Len(ar_posts)
    /\ ArRecurses(ParsePost(ar_posts[ar_pos]), ar_recursive)
    /\ ar_page' = 0
    /\ ar_pc' = "folder"
    /\ UNCHANGED <<ar_recursive, ar_posts, ar_offset, ar_skipped, ar_pos,
                   ar_entries, ar_more, ar_epos, ar_listed, ar_out>>
    /\ UNCHANGED notAr

\* _pagination: page = self.request(url).text, the entries of the page.
ArFolderPage ==
    /\ ar_pc = "folder"
    /\ \E n \in 0..MaxArEntries, more \in BOOLEAN :
         /\ more => ar_page + 1 < MaxArPages
         /\ ar_entries' = [i \in 1..n |->
              [post |-> ar_pos, page |-> ar_page + 1, entry |-> i]]
         /\ ar_more' = more
    /\ ar_listed' = ar_listed \o ar_entries'
    /\ ar_page' = ar_page + 1
    /\ ar_epos' = 1
    /\ ar_pc' = "queue"
    /\ UNCHANGED <<ar_recursive, ar_posts, ar_offset, ar_skipped, ar_pos,
                   ar_out>>
    /\ UNCHANGED notAr

\* yield Message.Queue, base + post_id, data
ArQueue ==
    /\ ar_pc = "queue"
    /\ ar_epos <= Len(ar_entries)
    /\ ar_out' = Append(ar_out,
         [kind |-> "Queue", post |-> ar_pos,
          page |-> ar_entries[ar_epos].page,
          entry |-> ar_entries[ar_epos].entry,
          extractor |-> "AryionPostExtractor"])
    /\ ar_epos' = ar_epos + 1
    /\ UNCHANGED <<ar_pc, ar_recursive, ar_posts, ar_offset, ar_skipped,
                   ar_pos, ar_page, ar_entries, ar_more, ar_listed>>
    /\ UNCHANGED notAr

\* The folder page is used up: the page behind "Next >>" is requested, or
\* the folder ends and items() goes on with the next post.
ArFolderNext ==
    /\ ar_pc = "queue"
    /\ ar_epos > Len(ar_entries)
    /\ IF ar_more
         THEN ar_pc' = "folder" /\ ar_pos' = ar_pos
         ELSE ar_pc' = "posts" /\ ar_pos' = ar_pos + 1
    /\ UNCHANGED <<ar_recursive, ar_posts, ar_offset, ar_skipped, ar_page,
                   ar_entries, ar_more, ar_epos, ar_listed, ar_out>>
    /\ UNCHANGED notAr

\* The listing of the posts is used up.
ArDone ==
    /\ ar_pc = "posts"
    /\ ar_pos > Len(ar_posts)
    /\ ar_pc' = "done"
    /\ UNCHANGED <<ar_recursive, ar_posts, ar_offset, ar_skipped, ar_pos,
                   ar_page, ar_entries, ar_more, ar_epos, ar_listed, ar_out>>
    /\ UNCHANGED notAr

ArNext ==
    \/ ArSkip \/ ArItems \/ ArNothing \/ ArDirectory \/ ArUrl \/ ArFolder
    \/ ArFolderPage \/ ArQueue \/ ArFolderNext \/ ArDone

-----------------------------------------------------------------------------
(* DeviantartStashExtractor.deviations: the recursive walk over a sta.sh   *)
(* page and the stacks it holds.                                           *)

\* Most page requests of one walk.
MaxStRequests == 3
\* Most items (stash-thumb-container) on one page.
MaxStItems == 2

\* A stash id is known by the way from the locator's page to it (the
\* positions of the items followed) and by its form: an id beginning with
\* "0", any other id of more than two characters, or a shorter one.
StForms == {"0", "2", "short"}

\* Variant: every id found is followed.
StFollowed_Any(form) == TRUE

\* if len(stash_id) > 2
StFollowed(form) == form # "short"

\* if stash_id[0] == "0": if uuid := text.extract(page, '//deviation/', '"')[0]
StIsItem(form, uuid) == form = "0" /\ uuid

StInit ==
    /\ st_pc = "request"
    /\ st_cur \in [path : {<<>>}, form : {"0", "2"}]
    /\ st_stack = <<>>
    /\ st_requests = <<>>
    /\ st_out = <<>>

StIdle ==
    /\ st_pc = "idle"
    /\ st_cur = [path |-> <<>>, form |-> "0"]
    /\ st_stack = <<>>
    /\ st_requests = <<>>
    /\ st_out = <<>>

\* page = self._limited_request(url).text: the page holds some items, and
\* a deviation uuid or not, which is looked for only when the id begins
\* with "0".  An item page returns after its yield; any other page is
\* looped over.
StRequest ==
    /\ st_pc = "request"
    /\ Len(st_requests) < MaxStRequests
    /\ \E uuid \in BOOLEAN, size \in 0..MaxStItems :
         /\ uuid => st_cur.form = "0"
         /\ StIsItem(st_cur.form, uuid) => size = 0
         /\ st_requests' = Append(st_requests,
              [path |-> st_cur.path, form |-> st_cur.form, uuid |-> uuid,
               via |-> "_limited_request"])
         /\ IF StIsItem(st_cur.form, uuid)
              THEN st_pc' = "yield" /\ st_stack' = st_stack
              ELSE /\ st_pc' = "walk"
                   /\ st_stack' = Append(st_stack,
                        [path |-> st_cur.path, size |-> size, pos |-> 1,
                         short |-> {}])
    /\ UNCHANGED <<st_cur, st_out>>
    /\ UNCHANGED notSt

\* yield self.api.deviation(uuid); return
StYield ==
    /\ st_pc = "yield"
    /\ st_out' = Append(st_out, st_cur.path)
    /\ st_pc' = IF st_stack = <<>> THEN "done" ELSE "walk"
    /\ UNCHANGED <<st_cur, st_stack, st_requests>>
    /\ UNCHANGED notSt

\* The next item of the page at hand has an id of more than two
\* characters: yield from self.deviations(stash_id)
StDescend ==
    /\ st_pc = "walk"
    /\ LET top == st_stack[Len(st_stack)]
       IN /\ top.pos <= top.size
          /\ \E form \in StForms :
               /\ StFollowed(form)
               /\ st_cur' = [path |-> Append(top.path, top.pos),
                             form |-> form]
          /\ st_stack' = [st_stack EXCEPT ![Len(st_stack)].pos = top.pos + 1]
    /\ st_pc' = "request"
    /\ UNCHANGED <<st_requests, st_out>>
    /\ UNCHANGED notSt

\* The next item of the page at hand has a shorter id: it is passed over.
StShort ==
    /\ st_pc = "walk"
    /\ LET top == st_stack[Len(st_stack)]
       IN /\ top.pos <= top.size
          /\ \E form \in StForms : ~StFollowed(form)
          /\ st_stack' = [st_stack EXCEPT
               ![Len(st_stack)].pos = top.pos + 1,
               ![Len(st_stack)].short = top.short \cup {top.pos}]
    /\ UNCHANGED <<st_pc, st_cur, st_requests, st_out>>
    /\ UNCHANGED notSt

\* The items of the page at hand are used up: this call of deviations()
\* ends, and with the outermost one the walk.
StReturn ==
    /\ st_pc = "walk"
    /\ LET top == st_stack[Len(st_stack)]
       IN top.pos > top.size
    /\ st_stack' = SubSeq(st_stack, 1, Len(st_stack) - 1)
    /\ st_pc' = IF Len(st_stack) = 1 THEN "done" ELSE "walk"
    /\ UNCHANGED <<st_cur, st_requests, st_out>>
    /\ UNCHANGED notSt

StNext == StRequest \/ StYield \/ StDescend \/ StShort \/ StReturn

-----------------------------------------------------------------------------
(* TwitterExtractor.items: the events of one tweet after the other.        *)

\* Most tweets that tweets() yields.
MaxTiTweets == 2

\* The options read in __init__.
TiOptions == [retweets : BOOLEAN, replies : BOOLEAN, quoted : BOOLEAN]

\* A tweet: whether it holds "retweeted_status_id_str",
\* "in_reply_to_user_id_str" and "quoted", and how many files
\* _extract_media, _extract_card and _extract_twitpic append for it.
TiTweets ==
    [retweet : BOOLEAN, reply : BOOLEAN, quoted : BOOLEAN,
     files : 0..MaxFiles]

\* Variant: quoted tweets are never passed over.
TiSkipped_NotQuoted(options, tweet) ==
    \/ ~options.retweets /\ tweet.retweet
    \/ ~options.replies /\ tweet.reply

\* The three `continue` at the head of the loop.
TiSkipped(options, tweet) ==
    \/ ~options.retweets /\ tweet.retweet
    \/ ~options.replies /\ tweet.reply
    \/ ~options.quoted /\ tweet.quoted

TiInit ==
    /\ ti_pc = "tweets"
    /\ ti_options \in TiOptions
    /\ ti_seen = <<>>
    /\ ti_num = 0
    /\ ti_out = <<>>

TiIdle ==
    /\ ti_pc = "idle"
    /\ ti_options = [retweets |-> TRUE, replies |-> TRUE, quoted |-> TRUE]
    /\ ti_seen = <<>>
    /\ ti_num = 0
    /\ ti_out = <<>>

\* The next tweet is passed over: an option excludes it, or no file was
\* extracted from it (if not files: continue).
TiContinue ==
    /\ ti_pc = "tweets"
    /\ Len(ti_seen) < MaxTiTweets
    /\ \E tweet \in TiTweets :
         /\ TiSkipped(ti_options, tweet) \/ tweet.files = 0
         /\ ti_seen' = Append(ti_seen, tweet)
    /\ UNCHANGED <<ti_pc, ti_options, ti_num, ti_out>>
    /\ UNCHANGED notTi

\* yield Message.Directory, tdata
TiDirectory ==
    /\ ti_pc = "tweets"
    /\ Len(ti_seen) < MaxTiTweets
    /\ \E tweet \in TiTweets :
         /\ ~TiSkipped(ti_options, tweet)
         /\ tweet.files # 0
         /\ ti_seen' = Append(ti_seen, tweet)
    /\ ti_out' = Append(ti_out,
         [kind |-> "Directory", tweet |-> Len(ti_seen'), num |-> 0,
          file |-> 0])
    /\ ti_num' = 0
    /\ ti_pc' = "urls"
    /\ UNCHANGED ti_options
    /\ UNCHANGED notTi

\* for tdata["num"], file in enumerate(files, 1): yield Message.Url, url, file
TiUrl ==
    /\ ti_pc = "urls"
    /\ ti_num < ti_seen[Len(ti_seen)].files
    /\ ti_num' = ti_num + 1
    /\ ti_out' = Append(ti_out,
         [kind |-> "Url", tweet |-> Len(ti_seen), num |-> ti_num',
          file |-> ti_num'])
    /\ UNCHANGED <<ti_pc, ti_options, ti_seen>>
    /\ UNCHANGED notTi

\* The files of the tweet are used up: the loop goes on.
TiNextTweet ==
    /\ ti_pc = "urls"
    /\ ti_num = ti_seen[Len(ti_seen)].files
    /\ ti_pc' = "tweets"
    /\ UNCHANGED <<ti_options, ti_seen, ti_num, ti_out>>
    /\ UNCHANGED notTi

\* tweets() is used up: items() returns.
TiDone ==
    /\ ti_pc = "tweets"
    /\ ti_pc' = "done"
    /\ UNCHANGED <<ti_options, ti_seen, ti_num, ti_out>>
    /\ UNCHANGED notTi

TiNext == TiContinue \/ TiDirectory \/ TiUrl \/ TiNextTweet \/ TiDone

-----------------------------------------------------------------------------
(* DeviantartExtractor.skip with the deviations() of the gallery and the   *)
(* favourites extractor, and SankakuExtractor.skip.                        *)

\* Most items (deviations, folders, posts) of a source.
MaxSpItems == 3

SpSites == {"gallery", "favourites", "sankaku"}

\* DeviantartExtractor.skip returns num, SankakuExtractor.skip returns 0.
SpSkipReturn(site, num) == IF site = "sankaku" THEN 0 ELSE num

\* deviations() lists the deviations themselves: `self.flat and not
\* self.group` for a gallery, `self.flat` for the favourites.
SpFlat(site, flat, group) ==
    CASE site = "gallery" -> flat /\ ~group
      [] site = "favourites" -> flat
      [] OTHER -> TRUE

\* Where the enumeration starts: after self.offset deviations in flat mode
\* (the offset of gallery_all, util.advance for the favourites), with the
\* first folder in folder mode, with the first post for Sankaku.
SpFirst(site, flat, group, offset) ==
    IF site # "sankaku" /\ SpFlat(site, flat, group) THEN offset + 1 ELSE 1

SpInit ==
    /\ sp_pc = "start"
    /\ sp_site \in SpSites
    /\ sp_flat \in BOOLEAN
    /\ sp_group \in BOOLEAN
    /\ sp_site = "sankaku" => (sp_flat /\ ~sp_group)
    /\ sp_total \in 0..MaxSpItems
    /\ sp_offset = 0
    /\ sp_skipped = NoSkip
    /\ sp_pos = 1
    /\ sp_out = <<>>

SpIdle ==
    /\ sp_pc = "idle"
    /\ sp_site = "gallery"
    /\ sp_flat = TRUE
    /\ sp_group = FALSE
    /\ sp_total = 0
    /\ sp_offset = 0
    /\ sp_skipped = NoSkip
    /\ sp_pos = 1
    /\ sp_out = <<>>

\* skip(num), called by the consumer before it iterates over the items.
SpSkip ==
    /\ sp_pc = "start"
    /\ sp_skipped = NoSkip
    /\ \E num \in 0..MaxSkip :
         /\ sp_skipped' = SpSkipReturn(sp_site, num)
         /\ sp_offset' = sp_offset + SpSkipReturn(sp_site, num)
    /\ UNCHANGED <<sp_pc, sp_site, sp_flat, sp_group, sp_total, sp_pos,
                   sp_out>>
    /\ UNCHANGED notSp

\* items() starts and calls deviations() (posts for Sankaku).
SpItems ==
    /\ sp_pc = "start"
    /\ sp_pos' = SpFirst(sp_site, sp_flat, sp_group, sp_offset)
    /\ sp_pc' = "items"
    /\ UNCHANGED <<sp_site, sp_flat, sp_group, sp_total, sp_offset,
                   sp_skipped, sp_out>>
    /\ UNCHANGED notSp

\* The next deviation or post, or the Queue event of the next folder.
SpYield ==
    /\ sp_pc = "items"
    /\ sp_pos <= sp_total
    /\ sp_out' = Append(sp_out,
         [kind |-> IF SpFlat(sp_site, sp_flat, sp_group)
                   THEN "item" ELSE "Queue",
          item |-> sp_pos])
    /\ sp_pos' = sp_pos + 1
    /\ UNCHANGED <<sp_pc, sp_site, sp_flat, sp_group, sp_total, sp_offset,
                   sp_skipped>>
    /\ UNCHANGED notSp

\* The source is used up.
SpDone ==
    /\ sp_pc = "items"
    /\ sp_pos > sp_total
    /\ sp_pc' = "done"
    /\ UNCHANGED <<sp_site, sp_flat, sp_group, sp_total, sp_offset,
                   sp_skipped, sp_pos, sp_out>>
    /\ UNCHANGED notSp

SpNext == SpSkip \/ SpItems \/ SpYield \/ SpDone

-----------------------------------------------------------------------------
(* The mapping an event carries is the object the loop goes on writing to: *)
(* NozomiExtractor.items (post), WebtoonsComicExtractor.items (data),      *)
(* DeviantartExtractor.commit (deviation), MyportfolioGalleryExtractor     *)
(* .items (data).                                                          *)

AlSites == {"nozomi", "webtoons", "deviantart", "myportfolio"}

\* The value of the written key before the loop has written it.
AlUnset == 0

\* How many mappings items() goes through: one per post or deviation, one
\* `data` for a portfolio page and for all list pages of a comic.
AlItems(site) ==
    IF site \in {"webtoons", "myportfolio"} THEN 1 ELSE MaxItems

AlInit ==
    /\ al_pc = "items"
    /\ al_site \in AlSites
    /\ al_heap = [o \in 1..MaxItems |-> AlUnset]
    /\ al_item = 0
    /\ al_num = 0
    /\ al_out = <<>>

AlIdle ==
    /\ al_pc = "idle"
    /\ al_site = "nozomi"
    /\ al_heap = [o \in 1..MaxItems |-> AlUnset]
    /\ al_item = 0
    /\ al_num = 0
    /\ al_out = <<>>

\* yield Message.Directory, post (deviation, data): the mapping of the
\* next item is delivered.
AlDirectory ==
    /\ al_pc = "items"
    /\ al_site # "webtoons"
    /\ al_item < AlItems(al_site)
    /\ al_item' = al_item + 1
    /\ al_num' = 0
    /\ al_out' = Append(al_out,
         [kind |-> "Directory", object |-> al_item',
          seen |-> al_heap[al_item']])
    /\ al_pc' = "files"
    /\ UNCHANGED <<al_site, al_heap>>
    /\ UNCHANGED notAl

\* post["url"] = url (deviation["target"] = target, data["num"] = num) and
\* yield Message.Url, url, post: the key is written in the mapping that
\* was delivered, and the same mapping is delivered again.
AlUrl ==
    /\ al_pc = "files"
    /\ al_site # "webtoons"
    /\ al_num < MaxFiles
    /\ al_num' = al_num + 1
    /\ al_heap' = [al_heap EXCEPT ![al_item] = al_num']
    /\ al_out' = Append(al_out,
         [kind |-> "Url", object |-> al_item, seen |-> al_heap'[al_item]])
    /\ UNCHANGED <<al_pc, al_site, al_item>>
    /\ UNCHANGED notAl

\* The files of the item are done.
AlEndItem ==
    /\ al_pc = "files"
    /\ al_site # "webtoons"
    /\ al_pc' = "items"
    /\ UNCHANGED <<al_site, al_heap, al_item, al_num, al_out>>
    /\ UNCHANGED notAl

\* data["page"] = self.page_no, after the request of the next list page.
AlPage ==
    /\ al_pc = "items"
    /\ al_site = "webtoons"
    /\ al_heap[1] < MaxWtPages
    /\ al_item' = 1
    /\ al_heap' = [al_heap EXCEPT ![1] = al_heap[1] + 1]
    /\ al_num' = 0
    /\ al_pc' = "files"
    /\ UNCHANGED <<al_site, al_out>>
    /\ UNCHANGED notAl

\* yield Message.Queue, url, data
AlQueue ==
    /\ al_pc = "files"
    /\ al_site = "webtoons"
    /\ al_num < MaxEpisodes
    /\ al_num' = al_num + 1
    /\ al_out' = Append(al_out,
         [kind |-> "Queue", object |-> 1, seen |-> al_heap[1]])
    /\ UNCHANGED <<al_pc, al_site, al_heap, al_item>>
    /\ UNCHANGED notAl

\* self.page_no += 1: the episodes of the list page are done.
AlEndPage ==
    /\ al_pc = "files"
    /\ al_site = "webtoons"
    /\ al_pc' = "items"
    /\ UNCHANGED <<al_site, al_heap, al_item, al_num, al_out>>
    /\ UNCHANGED notAl

\* items() returns.
AlDone ==
    /\ al_pc = "items"
    /\ al_pc' = "done"
    /\ UNCHANGED <<al_site, al_heap, al_item, al_num, al_out>>
    /\ UNCHANGED notAl

AlNext ==
    \/ AlDirectory \/ AlUrl \/ AlEndItem \/ AlPage \/ AlQueue \/ AlEndPage
    \/ AlDone

-----------------------------------------------------------------------------
(* Specifications: one per component, the other components idle. *)

InitOffset == OfInit /\ SkIdle /\ NzIdle /\ NsIdle /\ CcIdle /\ DaIdle /\ LrIdle /\ DjIdle /\ TwIdle /\ EvIdle /\ QdIdle /\ DpIdle /\ NlIdle /\ MpIdle /\ WtIdle /\ TpIdle /\ ArIdle /\ StIdle /\ TiIdle /\ SpIdle /\ AlIdle
SpecOffset == InitOffset /\ [][OfNext]_vars

InitCursor == OfIdle /\ SkInit /\ NzIdle /\ NsIdle /\ CcIdle /\ DaIdle /\ LrIdle /\ DjIdle /\ TwIdle /\ EvIdle /\ QdIdle /\ DpIdle /\ NlIdle /\ MpIdle /\ WtIdle /\ TpIdle /\ ArIdle /\ StIdle /\ TiIdle /\ SpIdle /\ AlIdle
SpecCursor == InitCursor /\ [][SkNext]_vars

InitRange == OfIdle /\ SkIdle /\ NzInit /\ NsIdle /\ CcIdle /\ DaIdle /\ LrIdle /\ DjIdle /\ TwIdle /\ EvIdle /\ QdIdle /\ DpIdle /\ NlIdle /\ MpIdle /\ WtIdle /\ TpIdle /\ ArIdle /\ StIdle /\ TiIdle /\ SpIdle /\ AlIdle
SpecRange == InitRange /\ [][NzNext]_vars

InitSearch == OfIdle /\ SkIdle /\ NzIdle /\ NsInit /\ CcIdle /\ DaIdle /\ LrIdle /\ DjIdle /\ TwIdle /\ EvIdle /\ QdIdle /\ DpIdle /\ NlIdle /\ MpIdle /\ WtIdle /\ TpIdle /\ ArIdle /\ StIdle /\ TiIdle /\ SpIdle /\ AlIdle
SpecSearch == InitSearch /\ [][NsNext]_vars

InitCache == OfIdle /\ SkIdle /\ NzIdle /\ NsIdle /\ CcInit /\ DaIdle /\ LrIdle /\ DjIdle /\ TwIdle /\ EvIdle /\ QdIdle /\ DpIdle /\ NlIdle /\ MpIdle /\ WtIdle /\ TpIdle /\ ArIdle /\ StIdle /\ TiIdle /\ SpIdle /\ AlIdle
SpecCache == InitCache /\ [][CcNext]_vars

InitRate == OfIdle /\ SkIdle /\ NzIdle /\ NsIdle /\ CcIdle /\ DaInit /\ LrIdle /\ DjIdle /\ TwIdle /\ EvIdle /\ QdIdle /\ DpIdle /\ NlIdle /\ MpIdle /\ WtIdle /\ TpIdle /\ ArIdle /\ StIdle /\ TiIdle /\ SpIdle /\ AlIdle
SpecRate == InitRate /\ [][DaNext]_vars

\* _limited_request called by one thread.
InitSpacing == OfIdle /\ SkIdle /\ NzIdle /\ NsIdle /\ CcIdle /\ DaIdle /\ LrInit({1}) /\ DjIdle /\ TwIdle /\ EvIdle /\ QdIdle /\ DpIdle /\ NlIdle /\ MpIdle /\ WtIdle /\ TpIdle /\ ArIdle /\ StIdle /\ TiIdle /\ SpIdle /\ AlIdle
SpecSpacing == InitSpacing /\ [][LrNext]_vars

\* _limited_request called by two threads.
InitShared == OfIdle /\ SkIdle /\ NzIdle /\ NsIdle /\ CcIdle /\ DaIdle /\ LrInit(Workers) /\ DjIdle /\ TwIdle /\ EvIdle /\ QdIdle /\ DpIdle /\ NlIdle /\ MpIdle /\ WtIdle /\ TpIdle /\ ArIdle /\ StIdle /\ TiIdle /\ SpIdle /\ AlIdle
SpecShared == InitShared /\ [][LrNext]_vars

\* Two extractors of the category deviantart, each with its own API object.
InitJobs == OfIdle /\ SkIdle /\ NzIdle /\ NsIdle /\ CcIdle /\ DaIdle /\ LrIdle /\ DjInit /\ TwIdle /\ EvIdle /\ QdIdle /\ DpIdle /\ NlIdle /\ MpIdle /\ WtIdle /\ TpIdle /\ ArIdle /\ StIdle /\ TiIdle /\ SpIdle /\ AlIdle
SpecJobs == InitJobs /\ [][DjNext]_vars

InitRetry == OfIdle /\ SkIdle /\ NzIdle /\ NsIdle /\ CcIdle /\ DaIdle /\ LrIdle /\ DjIdle /\ TwInit /\ EvIdle /\ QdIdle /\ DpIdle /\ NlIdle /\ MpIdle /\ WtIdle /\ TpIdle /\ ArIdle /\ StIdle /\ TiIdle /\ SpIdle /\ AlIdle
SpecRetry == InitRetry /\ [][TwNext]_vars

\* The calls that honour a reset time sent with a 429: SankakuAPI._call in
\* one job, TwitterAPI._call in another.
InitCooldown == InitCursor \/ InitRetry
NextCooldown == SkNext \/ TwNext
SpecCooldown == InitCooldown /\ [][NextCooldown]_vars

\* The four functions that retry a throttled request, each in a job of its
\* own: DeviantartOAuthAPI._call, DeviantartExtractor._limited_request,
\* SankakuAPI._call and TwitterAPI._call.
InitThrottling == InitRate \/ InitSpacing \/ InitCursor \/ InitRetry
NextThrottling == DaNext \/ LrNext \/ SkNext \/ TwNext
SpecThrottling == InitThrottling /\ [][NextThrottling]_vars

InitStream == OfIdle /\ SkIdle /\ NzIdle /\ NsIdle /\ CcIdle /\ DaIdle /\ LrIdle /\ DjIdle /\ TwIdle /\ EvInit /\ QdIdle /\ DpIdle /\ NlIdle /\ MpIdle /\ WtIdle /\ TpIdle /\ ArIdle /\ StIdle /\ TiIdle /\ SpIdle /\ AlIdle
SpecStream == InitStream /\ [][EvNext]_vars

InitDispatch == OfIdle /\ SkIdle /\ NzIdle /\ NsIdle /\ CcIdle /\ DaIdle /\ LrIdle /\ DjIdle /\ TwIdle /\ EvIdle /\ QdInit /\ DpIdle /\ NlIdle /\ MpIdle /\ WtIdle /\ TpIdle /\ ArIdle /\ StIdle /\ TiIdle /\ SpIdle /\ AlIdle
SpecDispatch == InitDispatch /\ [][QdNext]_vars

InitPagination == OfIdle /\ SkIdle /\ NzIdle /\ NsIdle /\ CcIdle /\ DaIdle /\ LrIdle /\ DjIdle /\ TwIdle /\ EvIdle /\ QdIdle /\ DpInit /\ NlIdle /\ MpIdle /\ WtIdle /\ TpIdle /\ ArIdle /\ StIdle /\ TiIdle /\ SpIdle /\ AlIdle
SpecPagination == InitPagination /\ [][DpNext]_vars

InitLinks == OfIdle /\ SkIdle /\ NzIdle /\ NsIdle /\ CcIdle /\ DaIdle /\ LrIdle /\ DjIdle /\ TwIdle /\ EvIdle /\ QdIdle /\ DpIdle /\ NlInit /\ MpIdle /\ WtIdle /\ TpIdle /\ ArIdle /\ StIdle /\ TiIdle /\ SpIdle /\ AlIdle
SpecLinks == InitLinks /\ [][NlNext]_vars


InitMetadata == OfIdle /\ SkIdle /\ NzIdle /\ NsIdle /\ CcIdle /\ DaIdle /\ LrIdle /\ DjIdle /\ TwIdle /\ EvIdle /\ QdIdle /\ DpIdle /\ NlIdle /\ MpInit /\ WtIdle /\ TpIdle /\ ArIdle /\ StIdle /\ TiIdle /\ SpIdle /\ AlIdle
SpecMetadata == InitMetadata /\ [][MpNext]_vars

InitWebtoons == OfIdle /\ SkIdle /\ NzIdle /\ NsIdle /\ CcIdle /\ DaIdle /\ LrIdle /\ DjIdle /\ TwIdle /\ EvIdle /\ QdIdle /\ DpIdle /\ NlIdle /\ MpIdle /\ WtInit /\ TpIdle /\ ArIdle /\ StIdle /\ TiIdle /\ SpIdle /\ AlIdle
SpecWebtoons == InitWebtoons /\ [][WtNext]_vars

\* The two API objects that log in inside _call; Sankaku with a username.
InitCredentials == InitRate \/ (InitCursor /\ sk_has_user)
NextCredentials ==
    \/ DaNext
    \/ SkCall \/ SkAuthCached \/ SkAuthLogin \/ SkAuthRejected \/ SkThrottled
    \/ SkInvalidToken \/ SkStop \/ SkPage \/ SkYield \/ SkAdvance
SpecCredentials == InitCredentials /\ [][NextCredentials]_vars

\* Sankaku without a username: authenticate is the no-op of __init__.
InitAnonymous == InitCursor /\ ~sk_has_user /\ sk_cache = NoEntry
NextAnonymous ==
    \/ SkCall \/ SkAuthNoUser \/ SkThrottled \/ SkInvalidToken \/ SkStop
    \/ SkPage \/ SkYield \/ SkAdvance

\* Every enumeration that fetches its pages one by one.
InitLazy ==
    InitOffset \/ InitAnonymous \/ InitPagination \/ InitLinks \/ InitWebtoons
NextLazy == OfNext \/ NextAnonymous \/ DpNext \/ NlNext \/ WtNext
SpecLazy == InitLazy /\ [][NextLazy]_vars

InitTimeline == OfIdle /\ SkIdle /\ NzIdle /\ NsIdle /\ CcIdle /\ DaIdle /\ LrIdle /\ DjIdle /\ TwIdle /\ EvIdle /\ QdIdle /\ DpIdle /\ NlIdle /\ MpIdle /\ WtIdle /\ TpInit /\ ArIdle /\ StIdle /\ TiIdle /\ SpIdle /\ AlIdle
SpecTimeline == InitTimeline /\ [][TpNext]_vars

InitAryion == OfIdle /\ SkIdle /\ NzIdle /\ NsIdle /\ CcIdle /\ DaIdle /\ LrIdle /\ DjIdle /\ TwIdle /\ EvIdle /\ QdIdle /\ DpIdle /\ NlIdle /\ MpIdle /\ WtIdle /\ TpIdle /\ ArInit /\ StIdle /\ TiIdle /\ SpIdle /\ AlIdle
SpecAryion == InitAryion /\ [][ArNext]_vars

InitStash == OfIdle /\ SkIdle /\ NzIdle /\ NsIdle /\ CcIdle /\ DaIdle /\ LrIdle /\ DjIdle /\ TwIdle /\ EvIdle /\ QdIdle /\ DpIdle /\ NlIdle /\ MpIdle /\ WtIdle /\ TpIdle /\ ArIdle /\ StInit /\ TiIdle /\ SpIdle /\ AlIdle
SpecStash == InitStash /\ [][StNext]_vars

InitTweets == OfIdle /\ SkIdle /\ NzIdle /\ NsIdle /\ CcIdle /\ DaIdle /\ LrIdle /\ DjIdle /\ TwIdle /\ EvIdle /\ QdIdle /\ DpIdle /\ NlIdle /\ MpIdle /\ WtIdle /\ TpIdle /\ ArIdle /\ StIdle /\ TiInit /\ SpIdle /\ AlIdle
SpecTweets == InitTweets /\ [][TiNext]_vars

InitSkipping == OfIdle /\ SkIdle /\ NzIdle /\ NsIdle /\ CcIdle /\ DaIdle /\ LrIdle /\ DjIdle /\ TwIdle /\ EvIdle /\ QdIdle /\ DpIdle /\ NlIdle /\ MpIdle /\ WtIdle /\ TpIdle /\ ArIdle /\ StIdle /\ TiIdle /\ SpInit /\ AlIdle
\* The handlers with a skip() of their own: Aryion, DeviantArt, Sankaku.
InitSkip == InitAryion \/ InitSkipping
NextSkip == ArNext \/ SpNext
SpecSkip == InitSkip /\ [][NextSkip]_vars

InitAliasing == OfIdle /\ SkIdle /\ NzIdle /\ NsIdle /\ CcIdle /\ DaIdle /\ LrIdle /\ DjIdle /\ TwIdle /\ EvIdle /\ QdIdle /\ DpIdle /\ NlIdle /\ MpIdle /\ WtIdle /\ TpIdle /\ ArIdle /\ StIdle /\ TiIdle /\ SpIdle /\ AlInit
SpecAliasing == InitAliasing /\ [][AlNext]_vars

-----------------------------------------------------------------------------
(* Claims *)

\* C1: page-number pagination yields every item of every fetched page in
\* page order, issues exactly one request per page (page_start, page_start+1,
\* ...), goes on after every full page and stops after the first page with
\* fewer than per_page items; page sizes [P, P, P, k<P] give 3P+k items and
\* exactly 4 requests.
C1_OffsetPagination ==
    /\ Len(of_requests) = Len(of_sizes)
    /\ \A i \in 1..Len(of_requests) : of_requests[i] = FirstPage(of_site) + i - 1
    /\ \A i \in 1..(Len(of_sizes) - 1) : of_sizes[i] = of_per_page
    /\ IsPrefix(of_out, Range(1, SumSeq(of_sizes)))
    /\ of_pc = "request" => of_out = Range(1, SumSeq(of_sizes))
    /\ of_pc = "done" =>
         /\ of_sizes # <<>>
         /\ of_sizes[Len(of_sizes)] < of_per_page
         /\ of_out = Range(1, SumSeq(of_sizes))
    /\ \A k \in 0..(of_per_page - 1) :
         (of_pc = "done" /\ of_sizes = <<of_per_page, of_per_page, of_per_page, k>>)
            => Len(of_out) = 3 * of_per_page + k /\ Len(of_requests) = 4

\* The run of C1's example: pages of sizes [P, P, P, k] with 0 < k < P,
\* completely consumed.
C1_Witness ==
    /\ of_pc = "done"
    /\ of_per_page = 2
    /\ of_sizes = <<2, 2, 2, 1>>
    /\ Len(of_out) = 7
    /\ Len(of_requests) = 4

C3_NoTokenTwice ==
    \A i, j \in 1..Len(sk_reqlog) :
        i < j => sk_reqlog[i].next # sk_reqlog[j].next

\* C3 (as claimed, successful pages only): no two successfully answered
\* requests carry the same cursor value.
C3_NoPageTwice ==
    \A i, j \in 1..Len(sk_reqlog) :
        (i < j /\ sk_reqlog[i].resp = "ok" /\ sk_reqlog[j].resp = "ok")
            => sk_reqlog[i].next # sk_reqlog[j].next

\* C4: with the total size T reported in Content-Range, the requests are
\* for the consecutive ranges [0,255], [256,511], ..., never more than
\* ceil(T/256) of them, and exactly ceil(T/256) once the enumeration has
\* ended (T = 1000: 4 requests); the decoded items are the identifiers of
\* the file, one per 4 bytes, in file order.
C4_ByteRangePagination ==
    nz_ranged =>
        /\ \A k \in 1..Len(nz_ranges) :
             nz_ranges[k] = <<256 * (k - 1), 256 * (k - 1) + 255>>
        /\ Len(nz_ranges) <= (nz_total + 255) \div 256
        /\ Len(nz_out) <= nz_total \div 4
        /\ \A k \in 1..Len(nz_out) : nz_out[k] = PostId(k)
        /\ nz_pc = "done" =>
             /\ Len(nz_ranges) = (nz_total + 255) \div 256
             /\ Len(nz_out) = nz_total \div 4
             /\ nz_total % 4 = 0
        /\ nz_pc = "error" =>
             /\ Len(nz_ranges) = (nz_total + 255) \div 256
             /\ Len(nz_out) = nz_total \div 4
             /\ nz_total % 4 # 0
        /\ (nz_pc = "done" /\ nz_total = 1000) =>
             Len(nz_ranges) = 4 /\ Len(nz_out) = 250

\* The run of C4's example: T = 1000 read completely.
C4_Witness ==
    /\ nz_ranged
    /\ nz_pc = "done"
    /\ nz_total = 1000
    /\ Len(nz_ranges) = 4
    /\ Len(nz_out) = 250

\* The identifiers a search is to return: those in the set of every
\* positive term and in the set of no negative term (of the whole index
\* when there is no positive term).
C5_Expected ==
    LET pos == {i \in 1..Len(ns_tags) : ~ns_tags[i].neg}
        neg == {i \in 1..Len(ns_tags) : ns_tags[i].neg}
        base == IF ns_tags = <<>> THEN {} ELSE ns_files["index"]
    IN  {x \in base :
            /\ \A i \in pos : x \in ns_files[ns_tags[i].name]
            /\ \A i \in neg : x \notin ns_files[ns_tags[i].name]}

\* C5 (as claimed): for every list of terms the search returns the
\* intersection of the positive terms' sets minus the negative terms' sets,
\* in strictly descending order without duplicates.
C5_SetAlgebra ==
    ns_pc = "done" =>
        /\ \A i, j \in 1..Len(ns_return) : i < j => ns_return[i] > ns_return[j]
        /\ {ns_return[i] : i \in 1..Len(ns_return)} = C5_Expected

\* C6 (as claimed): a search requests the file of every term exactly once,
\* in term order, the index at most once and only for a negative term, and
\* nothing else.
C6_FetchOnce ==
    LET idx  == {i \in 1..Len(ns_fetches) : ns_fetches[i] = <<"index">>}
        rest == SelectSeq(ns_fetches, LAMBDA p : p # <<"index">>)
    IN  /\ Cardinality(idx) <= 1
        /\ idx # {} => \E i \in 1..Len(ns_tags) : ns_tags[i].neg
        /\ Len(rest) = ns_k - 1
        /\ \A i \in 1..Len(rest) : rest[i] = <<"nozomi", ns_tags[i].name>>

\* C7: single flight.  Two callers never run the authentication function
\* for the same key at the same time; a caller that finds a run in flight
\* for its key waits for it, does not start a run of its own and receives
\* what that run returned.
C7_SingleFlight ==
    /\ \A w, v \in Workers :
         (w # v /\ cc_pc[w] = "auth" /\ cc_pc[v] = "auth") => cc_key[w] # cc_key[v]
    /\ \A w \in Workers :
         cc_pc[w] = "wait" =>
            \E v \in Workers : v # w /\ cc_pc[v] = "auth" /\ cc_key[v] = cc_key[w]
    /\ \A w \in Workers :
         cc_last[w].waited =>
            /\ ~cc_last[w].invoked
            /\ cc_last[w].value # 0 =>
                 /\ cc_runs[cc_last[w].value].by # w
                 /\ cc_runs[cc_last[w].value].key = cc_last[w].key
                 /\ cc_runs[cc_last[w].value].stored = cc_last[w].at
    /\ \A i, j \in 1..Len(cc_runs) :
         (i < j /\ cc_runs[i].key = cc_runs[j].key) => cc_runs[i].stored # -1

\* Two overlapping calls for one key: the second caller has received the
\* token of the first caller's run, the only run there has been.
C7_Witness ==
    /\ cc_last[2].waited
    /\ cc_last[2].value = 1
    /\ cc_last[1].invoked
    /\ cc_last[1].value = 1
    /\ cc_last[1].key = cc_last[2].key
    /\ Len(cc_runs) = 1

\* C8: TTL of 3600 s.  A run of the authentication function for a key
\* starts only when every earlier result for the key was stored at least
\* 3600 s before; a call answered without a run returns the value of a run
\* of its key stored less than 3600 s before; the entry of a key is the
\* result of the latest successful run for it, valid for 3600 s.
C8_TimeToLive ==
    /\ \A w \in Workers :
         cc_pc[w] = "auth" =>
            \A r \in 1..Len(cc_runs) :
               (cc_runs[r].key = cc_key[w] /\ cc_runs[r].stored >= 0)
                  => cc_now >= cc_runs[r].stored + 3600
    /\ \A w \in Workers :
         (cc_last[w].value # 0 /\ ~cc_last[w].invoked) =>
            LET r == cc_last[w].value
            IN  /\ cc_runs[r].key = cc_last[w].key
                /\ cc_runs[r].stored <= cc_last[w].at
                /\ cc_last[w].at < cc_runs[r].stored + 3600
    /\ \A k \in DaKeys :
         LET done == {r \in 1..Len(cc_runs) :
                         cc_runs[r].key = k /\ cc_runs[r].stored >= 0}
         IN  done # {} =>
                LET r == CHOOSE x \in done : \A y \in done : y <= x
                IN  cc_cache[<<0, k>>] =
                       [value |-> r, expires |-> cc_runs[r].stored + 3600]

\* A token stored at time 0, returned from the cache at 3599 and replaced
\* by a second run at 3600.
C8_Witness ==
    /\ cc_now = 3600
    /\ Len(cc_runs) = 2
    /\ cc_runs[1].key = cc_runs[2].key
    /\ cc_runs[1].stored = 0
    /\ cc_runs[2].stored = 3600
    /\ cc_last[1] = [key |-> cc_runs[1].key, at |-> 3599, value |-> 1,
                     invoked |-> FALSE, waited |-> FALSE]
    /\ cc_last[2].value = 2
    /\ cc_last[2].invoked
    /\ cc_cache[<<0, cc_runs[1].key>>] = [value |-> 2, expires |-> 7200]

\* C9: with a username, a request answered with code invalid_token leaves no
\* valid cache entry behind; the next attempt is the same request (same page,
\* same cursor) and carries the token of a later login, and the rejected
\* token is never sent again.
C9_InvalidateForcesReauth ==
    sk_has_user =>
        \A i \in 1..Len(sk_reqlog) :
            sk_reqlog[i].resp = "invalid_token" =>
                /\ i < Len(sk_reqlog) =>
                     /\ sk_reqlog[i + 1].page = sk_reqlog[i].page
                     /\ sk_reqlog[i + 1].next = sk_reqlog[i].next
                     /\ sk_reqlog[i + 1].auth > sk_reqlog[i].auth
                /\ \A j \in (i + 1)..Len(sk_reqlog) :
                     sk_reqlog[j].auth # sk_reqlog[i].auth
                /\ (i = Len(sk_reqlog) /\ sk_pc = "auth") => sk_cache.expires = 0
                /\ (i = Len(sk_reqlog) /\ sk_pc = "request") =>
                     /\ sk_header > sk_reqlog[i].auth
                     /\ sk_auths >= sk_header

\* A rejected token followed by the retry of the request with the token of
\* the next login.
C9_Witness ==
    /\ sk_has_user
    /\ \E i \in 1..(Len(sk_reqlog) - 1) :
         /\ sk_reqlog[i].resp = "invalid_token"
         /\ sk_reqlog[i + 1].auth = sk_reqlog[i].auth + 1
         /\ sk_reqlog[i + 1].resp = "ok"

\* What one 429 response does to the delay, for every recorded response:
\* one step up below the ceiling, nothing at or above it; and each attempt
\* starts from the delay the previous one left.
C10_StepOn429 ==
    /\ \A i \in 1..Len(da_log) :
          da_log[i].status = "429" =>
              da_log[i].after = IF da_log[i].before < DaCeiling
                                THEN da_log[i].before + 1
                                ELSE da_log[i].before
    /\ \A i \in 1..(Len(da_log) - 1) : da_log[i + 1].before = da_log[i].after

\* Three consecutive 429 responses raise the delay to at most the ceiling:
\* by three steps when that stays below it, up to it otherwise, and not at
\* all when the delay was already at or above it.
C10_ThreeThrottles ==
    \A i \in 1..(Len(da_log) - 2) :
        (\A j \in i..(i + 2) : da_log[j].status = "429") =>
            da_log[i + 2].after =
                IF da_log[i].before >= DaCeiling THEN da_log[i].before
                ELSE IF da_log[i].before + 3 <= DaCeiling
                     THEN da_log[i].before + 3 ELSE DaCeiling

C11_Recovery ==
    /\ \A i \in 2..Len(da_log) :
          (da_log[i - 1].status = "429" /\ da_log[i].status = "ok") =>
              da_log[i].after = da_log[i].before - 1
    /\ \A i \in 1..Len(da_log) :
          (da_log[i].status = "ok" /\ da_log[i].before >= da_delay_min) =>
              da_log[i].after >= da_delay_min

\* C11, amended: a success lowers the delay by exactly one step when the
\* delay is above the floor delay_min = max(2, wait-min) and leaves it
\* unchanged otherwise (after a 429 at a delay below the floor, or at a
\* floor that is at or above the ceiling); no success lowers the delay
\* below the floor, and no success moves a delay that is below it.
C11_RecoveryAboveFloor ==
    /\ da_delay_min = Max(DaFloor, da_wait_min)
    /\ \A i \in 1..Len(da_log) :
          da_log[i].status = "ok" =>
              /\ da_log[i].after = IF da_log[i].before > da_delay_min
                                   THEN da_log[i].before - 1
                                   ELSE da_log[i].before
              /\ da_log[i].before >= da_delay_min =>
                     da_log[i].after >= da_delay_min

\* A 429 raised the delay from the floor 2 to 3 and the success after it
\* brought it back to 2; one more success leaves it at the floor.
C11_Witness ==
    /\ Len(da_log) = 3
    /\ da_wait_min = DaFloor
    /\ da_log[1].status = "429" /\ da_log[1].after = DaFloor + 1
    /\ da_log[2].status = "ok" /\ da_log[2].after = DaFloor
    /\ da_log[3].status = "ok" /\ da_log[3].after = DaFloor

\* C12: with one caller, every request of _limited_request leaves at least
\* the interval of 2 seconds after the value _last_request had at that
\* moment, and the values assigned to _last_request never decrease (the
\* attribute always holds the latest of them).
C12_MinimumSpacing ==
    /\ \A i \in 1..Len(lr_log) :
          lr_log[i].at >= lr_log[i].last + LrInterval
    /\ \A i \in 1..Len(lr_stamps) : \A j \in i..Len(lr_stamps) :
          lr_stamps[i] <= lr_stamps[j]
    /\ lr_last = IF lr_stamps = <<>> THEN 0 ELSE lr_stamps[Len(lr_stamps)]

\* A second call entered less than 2 seconds after the first response,
\* slept, and its request left exactly 2 seconds after _last_request; its
\* response set a new timestamp.
C12_Witness ==
    /\ Len(lr_log) = 2
    /\ Len(lr_stamps) = 2
    /\ lr_log[2].last = lr_stamps[1]
    /\ lr_log[2].at = lr_log[2].last + LrInterval
    /\ lr_stamps[2] >= lr_stamps[1]

\* C13: with two threads calling _limited_request, any two requests leave
\* at least the interval of 2 seconds apart, each at least 2 seconds after
\* the _last_request of that moment.
C13_SharedSpacing ==
    /\ \A i \in 1..Len(lr_log) : \A j \in 1..Len(lr_log) :
          i < j => lr_log[j].at - lr_log[i].at >= LrInterval
    /\ \A i \in 1..Len(lr_log) :
          lr_log[i].at >= lr_log[i].last + LrInterval

\* C14: the adaptive delay is one state of the category: the delay slept
\* before any request is the delay the previous response of the category
\* left, whichever extractor received it; so the increase that a 429 causes
\* at one extractor is applied before the next request of the other.
C14_DelayPerCategory ==
    \A i \in 1..(Len(dj_log) - 1) :
        dj_log[i + 1].applied = dj_log[i].after

\* C15: the request sent after a 429 is the throttled request again: same
\* root, endpoint, HTTP method and parameters, for the timeline call and
\* for the POST guest-token activation alike.
C15_RetrySameRequest ==
    \A i \in 1..(Len(tw_log) - 1) :
        tw_log[i].resp = "429" => tw_log[i + 1].req = tw_log[i].req

\* C16: after a 429 that carries a reset time (X-RateLimit-Reset for
\* Sankaku, x-rate-limit-reset for Twitter) the next request is not sent
\* before that time; Twitter's next request is sent at least 60 seconds
\* after a 429 without a reset time.
C16_CooldownHonoured ==
    /\ \A i \in 1..(Len(sk_times) - 1) :
          sk_resets[i] # NoReset => sk_times[i + 1] >= sk_resets[i]
    /\ \A i \in 1..(Len(tw_log) - 1) :
          tw_log[i].resp = "429" =>
              IF tw_log[i].until # NoReset
              THEN tw_log[i + 1].at >= tw_log[i].until
              ELSE tw_log[i + 1].at >= tw_log[i].at + TwDefaultWait

\* Sankaku's first request was answered with a 429 whose reset time lay
\* ahead, and the second request, a page, left at that reset time.
C16_Witness ==
    /\ Len(sk_times) >= 2
    /\ sk_reqlog[1].resp = "429"
    /\ sk_resets[1] > sk_times[1]
    /\ sk_times[2] = sk_resets[1]
    /\ sk_reqlog[2].resp = "ok"

\* C17: throttling is not a failure.  A call whose latest response was a
\* throttling response (429, or 403 "Request blocked.") is still on its way
\* to the next attempt, and the attempt after a throttling response gets an
\* answer from the server: no number of throttling responses makes
\* DeviantartOAuthAPI._call, _limited_request, SankakuAPI._call or
\* TwitterAPI._call end without a response for its paginator.
C17_ThrottlingIsNoFailure ==
    /\ (da_log # <<>> /\ da_log[Len(da_log)].status = "429") =>
          da_pc \in {"sleep", "auth", "request", "capped", "auth_error"}
    /\ \A w \in Workers :
          lr_blocked[w] > 0 =>
              \/ lr_pc[w] \in {"wait", "request", "response"}
              \/ \E i \in 1..Len(lr_returned) :
                    lr_returned[i] = LrReturnRecord(w, lr_blocked[w])
    /\ (sk_reqlog # <<>> /\ sk_reqlog[Len(sk_reqlog)].resp = "429") =>
          sk_pc \in {"auth", "request", "auth_error"}
    /\ \A i \in 2..Len(tw_log) :
          tw_log[i - 1].resp = "429" => tw_log[i].resp # "none"

\* C18: in the stream of every job a Version message occurs at most once,
\* and when it occurs it is the first message: nothing precedes it.
C18_VersionFirst ==
    \A i \in 1..Len(ev_stream) :
        ev_stream[i].kind = "Version" => i = 1

\* A finished DeviantArt job whose stream is Version, Queue, Directory, Url.
C18_Witness ==
    /\ ev_site = "deviantart"
    /\ ev_pc = "done"
    /\ Len(ev_stream) = 4
    /\ ev_stream[1].kind = "Version"
    /\ ev_stream[2].kind = "Queue"
    /\ ev_stream[3].kind = "Directory"
    /\ ev_stream[4].kind = "Url"

\* C19: every Url message comes after a Directory message, and the latest
\* Directory before it is the one of the Url's own item.
C19_UrlAfterDirectory ==
    \A i \in 1..Len(ev_stream) :
        ev_stream[i].kind = "Url" =>
            \E j \in 1..(i - 1) :
                /\ ev_stream[j].kind = "Directory"
                /\ ev_stream[j].item = ev_stream[i].item
                /\ \A k \in (j + 1)..(i - 1) : ev_stream[k].kind # "Directory"

\* A Nozomi job with two posts: Directory and two Urls of the first, then
\* Directory and one Url of the second.
C19_Witness ==
    /\ ev_site = "nozomi"
    /\ Len(ev_stream) = 6
    /\ ev_stream[2] = EvMessage("Directory", 1)
    /\ ev_stream[3] = EvMessage("Url", 1)
    /\ ev_stream[4] = EvMessage("Url", 1)
    /\ ev_stream[5] = EvMessage("Directory", 2)
    /\ ev_stream[6] = EvMessage("Url", 2)

\* C20: after the dispatch of a Queue message the metadata of the nested
\* job has every key of the nested extractor's metadata with the nested
\* value, every other seed key with the seed value, and no further key;
\* seed {owner: alice} with nested {owner: bob, title: x} gives
\* {owner: bob, title: x}, and seed {owner: alice, lang: en} with nested
\* {owner: bob} gives {owner: bob, lang: en}.
C20_SeedAsDefaults ==
    qd_pc = "merged" =>
        /\ DOMAIN qd_final = DOMAIN qd_seed \cup DOMAIN qd_nested
        /\ \A k \in DOMAIN qd_nested : qd_final[k] = qd_nested[k]
        /\ \A k \in DOMAIN qd_seed \ DOMAIN qd_nested : qd_final[k] = qd_seed[k]
        /\ (/\ qd_seed = [k \in {"owner"} |-> "alice"]
            /\ qd_nested = [k \in {"owner", "title"} |->
                               IF k = "owner" THEN "bob" ELSE "x"])
           => qd_final = [k \in {"owner", "title"} |->
                             IF k = "owner" THEN "bob" ELSE "x"]
        /\ (/\ qd_seed = [k \in {"owner", "lang"} |->
                             IF k = "owner" THEN "alice" ELSE "en"]
            /\ qd_nested = [k \in {"owner"} |-> "bob"])
           => qd_final = [k \in {"owner", "lang"} |->
                             IF k = "owner" THEN "bob" ELSE "en"]

\* A Sankaku book queued with seed {owner: alice, lang: en}, its pool job
\* producing {owner: bob}: the nested job runs with {owner: bob, lang: en}.
C20_Witness ==
    /\ qd_pc = "merged"
    /\ qd_extractor = "SankakuPoolExtractor"
    /\ qd_seed = [k \in {"owner", "lang"} |-> IF k = "owner" THEN "alice" ELSE "en"]
    /\ qd_nested = [k \in {"owner"} |-> "bob"]
    /\ qd_final = [k \in {"owner", "lang"} |-> IF k = "owner" THEN "bob" ELSE "en"]

\* C21: pages are fetched on demand.  Whenever Moebooru, Derpibooru or
\* Sankaku are about to request a page, and whenever DeviantartOAuthAPI /
\* DeviantartEclipseAPI._pagination, Paheal or Aryion have requested one, the
\* consumer has received every item of every page handed out before; a
\* consumer that stops pulling in the middle of a page leaves the next page
\* unrequested.
C21_FetchOnDemand ==
    /\ of_pc = "request" => Len(of_out) = SumSeq(of_sizes)
    /\ sk_pc = "request" => Len(sk_out) = sk_served
    /\ ~dp_folders =>
         \A k \in 1..Len(dp_fetches) :
           dp_fetches[k].received = Kept(dp_fetches, k - 1)
    /\ \A k \in 1..Len(nl_fetches) :
         nl_fetches[k].received = Kept(nl_fetches, k - 1)

\* The consumer has pulled the items of a first DeviantArt page, and only
\* then a second page was requested.
C21_Witness ==
    /\ ~dp_folders
    /\ Len(dp_fetches) = 2
    /\ dp_fetches[1].kept = MaxLimit
    /\ dp_fetches[2].received = MaxLimit

\* C22: the stream is pulled.  Whenever the consumer receives an item of a
\* DeviantArt enumeration (gallery, folder mode included), the request that
\* fetched the item is the latest request issued: no page beyond the one that
\* holds the item has been fetched.
C22_NoFetchAhead ==
    [][dp_out' # dp_out =>
         dp_out'[Len(dp_out')].fetch = Len(dp_fetches')]_vars

\* C23: the fields of the item win.  In every Directory and Url event of
\* Nozomi, Twitter and Paheal each key the item itself came with carries the
\* item's value, also when metadata() computed a value for the same key.
C23_ItemFieldsWin ==
    \A i \in 1..Len(mp_stream) :
      \A k \in DOMAIN mp_stream[i].item :
        mp_stream[i].data[k] = mp_stream[i].item[k]

C25_MalformedEndsGracefully ==
    \A k \in 1..Len(dp_fetches) :
      dp_fetches[k].kind = "no_results" =>
        /\ k = Len(dp_fetches)
        /\ dp_pc \in {"done", "deliver"}
        /\ dp_log # <<>>
        /\ \A i \in 1..Len(dp_out) : dp_out[i].fetch < k

\* C26: StopExtraction ends the job at once.  A Webtoons request redirected
\* to the age gate, a 404 from the Eclipse API and an unsuccessful Sankaku
\* response with a code other than invalid_token are each the last request
\* of the job: the job has stopped, the request is not repeated, and no
\* event comes from that response.
C26_StopWithoutRetry ==
    /\ \A k \in 1..Len(wt_fetches) :
         WtRedirected(wt_fetches[k].history, wt_fetches[k].url) =>
            /\ k = Len(wt_fetches)
            /\ wt_pc = "stop"
            /\ \A i \in 1..Len(wt_out) : wt_out[i].page < wt_fetches[k].page
    /\ \A k \in 1..Len(dp_fetches) :
         dp_fetches[k].kind = "404" =>
            /\ k = Len(dp_fetches)
            /\ dp_pc = "stop"
            /\ \A i \in 1..Len(dp_out) : dp_out[i].fetch < k
    /\ \A k \in 1..Len(sk_reqlog) :
         sk_reqlog[k].resp = "error" =>
            /\ k = Len(sk_reqlog)
            /\ sk_pc = "stop"
            /\ Len(sk_out) = sk_served

\* The Eclipse API answers the request of the second page with 404, after
\* the consumer got the items of the first page.
C26_Witness ==
    /\ dp_pc = "stop"
    /\ Len(dp_fetches) = 2
    /\ dp_fetches[2].kind = "404"
    /\ Len(dp_out) = MaxLimit

\* C27: a rejected credential is fatal.  When the token endpoint rejects the
\* login, AuthenticationError leaves _call: that login is the last one of the
\* job (the loop of _call does not repeat it), no API request is sent after
\* it, no request ever carries a token of the rejected login, and nothing is
\* stored for it.
C27_RejectedIsFatal ==
    /\ \A k \in 1..Len(da_logins) :
         ~da_logins[k].ok =>
            /\ k = Len(da_logins)
            /\ da_pc = "auth_error"
            /\ da_result = "AuthenticationError"
            /\ Len(da_log) = da_logins[k].requests
            /\ ~CacheValid(da_cache[da_logins[k].key], da_now)
    /\ sk_pc = "auth_error" =>
         /\ \A i \in 1..Len(sk_reqlog) : sk_reqlog[i].auth < sk_auths
         /\ sk_header < sk_auths
         /\ ~CacheValid(sk_cache, 0)
    /\ \A i \in 1..Len(sk_reqlog) : sk_reqlog[i].auth <= sk_auths

\* DeviantArt: the login for the refresh token is rejected after a public
\* request went through.
C27_Witness ==
    /\ da_pc = "auth_error"
    /\ Len(da_logins) = 2
    /\ da_logins[1].ok
    /\ ~da_logins[2].ok
    /\ Len(da_log) >= 1

C30_FiveAttempts ==
    /\ \A p \in 1..Len(sk_pages) :
         Cardinality({i \in 1..Len(sk_reqlog) : sk_reqlog[i].page = p}) <= 5
    /\ LET mine == {i \in 1..Len(sk_reqlog) :
                       sk_reqlog[i].page = Len(sk_pages)}
           spent == \A i \in mine :
                       sk_reqlog[i].resp \in {"429", "invalid_token"}
       IN /\ (Cardinality(mine) = 5 /\ spent) => sk_pc = "crash"
          /\ sk_pc = "crash" =>
               /\ Cardinality(mine) = 5
               /\ spent
               /\ Len(sk_tokens) = Len(sk_pages) - 1

\* A call has used up its five attempts on answers of both kinds.
C30_Witness ==
    /\ sk_pc = "crash"
    /\ \E i, j \in 1..Len(sk_reqlog) :
         /\ sk_reqlog[i].resp = "429"
         /\ sk_reqlog[j].resp = "invalid_token"
         /\ sk_reqlog[i].page = sk_reqlog[j].page

\* C31: TwitterAPI._pagination ends exactly after an answer without
\* instructions, or without a bottom cursor, or with a bottom cursor marked
\* stopOnEmptyResponse on a page that resolved no tweet; after every other
\* answer the next request carries the cursor of that answer, the one of a
\* replaceEntry before the bottom cursor; a pinned entry is yielded only
\* from the first page.
C31_TimelineTermination ==
    /\ \A k \in 1..Len(tp_log) :
         LET a == tp_log[k].answer
             ids == TpTweetIds(a, tp_log[k].pinned, k)
             stops == \/ ~a.instructions
                      \/ ~a.bottom.present
                      \/ (a.bottom.stop /\ ids = <<>>)
             last == k = Len(tp_log)
         IN /\ stops => (last /\ tp_pc # "request")
            /\ ~stops => ~(last /\ tp_pc = "done")
            /\ ~last =>
                 tp_log[k + 1].cursor =
                    IF a.replace # NoCursor THEN a.replace ELSE a.bottom.value
    /\ \A i \in 1..Len(tp_out) :
         tp_out[i].entry = 0 => tp_out[i].request = 1

\* C31 (amended): TwitterAPI._pagination ends exactly after an answer
\* without instructions, or whose cursor value (that of a replaceEntry
\* when there is one, else that of the bottom cursor entry) is absent or
\* empty, or on a page with no tweet and no bottom cursor entry free of
\* the stopOnEmptyResponse mark; otherwise the next request carries that
\* cursor value; a pinned entry is read on the first page only.
C31_TimelineTerminationExact ==
    /\ \A k \in 1..Len(tp_log) :
         LET a == tp_log[k].answer
             ids == TpTweetIds(a, tp_log[k].pinned, k)
             next == IF a.replace # NoCursor THEN a.replace
                     ELSE a.bottom.value
             stops == \/ ~a.instructions
                      \/ next \in {NoCursor, ""}
                      \/ (ids = <<>> /\ ~(a.bottom.present /\ ~a.bottom.stop))
             last == k = Len(tp_log)
         IN /\ stops => (last /\ tp_pc # "request")
            /\ ~stops => ~(last /\ tp_pc = "done")
            /\ ~last => tp_log[k + 1].cursor = next
    /\ \A i \in 1..Len(tp_out) : tp_out[i].entry = 0 => tp_out[i].request = 1

\* A page with a tweet and a replaceEntry cursor but no bottom cursor entry
\* was followed by a request with that cursor, which ended the enumeration.
C31_Witness ==
    /\ Len(tp_log) = 2
    /\ tp_pc = "done"
    /\ tp_log[1].answer.bottom = NoBottom
    /\ tp_log[1].answer.replace = "c1"
    /\ tp_log[2].cursor = "c1"
    /\ Len(tp_out) > 0

\* C32: WebtoonsComicExtractor.items fetches list pages with consecutive
\* page numbers from the page number of the locator on; the job never ends
\* before the first page was fetched; page n+1 is fetched only if the text
\* of page n held the list path of page n+1, and the job ends when it did
\* not; every episode Queue event of page n is emitted before page n+1 is
\* fetched.
C32_ConsecutivePages ==
    LET f == Len(wt_fetches)
        turned == IF wt_pc \in {"request", "done"} THEN f ELSE f - 1
    IN /\ wt_pc \in {"yield", "done", "stop", "error"} => f > 0
       /\ f > 0 =>
            /\ wt_fetches[1].page \in WtStartPages
            /\ wt_fetches[1].page + turned = wt_page_no
       /\ \A k \in 1..(f - 1) :
            /\ wt_fetches[k + 1].page = wt_fetches[k].page + 1
            /\ wt_fetches[k].linked
            /\ Cardinality({i \in 1..Len(wt_out) :
                              wt_out[i].page = wt_fetches[k].page})
                 = wt_fetches[k].size
       /\ (f > 0 /\ wt_fetches[f].list) =>
            /\ wt_pc = "done" => ~wt_fetches[f].linked
            /\ wt_pc = "request" => wt_fetches[f].linked
       /\ \A i \in 1..Len(wt_out) :
            \A j \in 1..Len(wt_out) :
               i < j =>
                 \/ wt_out[i].page < wt_out[j].page
                 \/ (wt_out[i].page = wt_out[j].page
                     /\ wt_out[i].index < wt_out[j].index)

\* A locator with page=2: pages 2 and 3 were fetched, page 3 did not hold
\* the path of page 4, and the job ended after the events of both pages.
C32_Witness ==
    /\ wt_pc = "done"
    /\ Len(wt_fetches) = 2
    /\ wt_fetches[1].page = 2
    /\ wt_fetches[1].linked
    /\ ~wt_fetches[2].linked
    /\ Len(wt_out) = 2 * MaxEpisodes

\* C33: AryionExtractor.items, post by post: a file post yields exactly one
\* Directory event followed by exactly one Url event; a folder post yields,
\* in recursive mode, nothing but Queue events, one per entry of the folder
\* in pagination order, each addressed to AryionPostExtractor; a post whose
\* HEAD request failed yields no event, and the posts after it are still
\* handled.
C33_AryionEvents ==
    LET first == (IF ar_recursive THEN 0 ELSE ar_offset) + 1
    IN /\ \A p \in 1..Len(ar_posts) :
            LET evs == SelectSeq(ar_out, LAMBDA ev : ev.post = p)
                listed == SelectSeq(ar_listed, LAMBDA en : en.post = p)
                kinds == [i \in 1..Len(evs) |-> evs[i].kind]
                queued == [i \in 1..Len(evs) |->
                            [post |-> p, page |-> evs[i].page,
                             entry |-> evs[i].entry]]
                handled == first <= p /\ p < ar_pos
            IN /\ ar_posts[p] = "file" =>
                    /\ IsPrefix(kinds, <<"Directory", "Url">>)
                    /\ handled => kinds = <<"Directory", "Url">>
               /\ ar_posts[p] = "failed" => evs = <<>>
               /\ (ar_posts[p] = "folder" /\ ar_recursive) =>
                    /\ \A i \in 1..Len(evs) :
                           /\ evs[i].kind = "Queue"
                           /\ evs[i].extractor = "AryionPostExtractor"
                    /\ IsPrefix(queued, listed)
                    /\ handled => queued = listed
       /\ \A i \in 1..Len(ar_out) :
            \A j \in 1..Len(ar_out) :
               i < j => ar_out[i].post <= ar_out[j].post
       /\ ar_pc = "done" => ar_pos > Len(ar_posts)

\* A failed post and then a folder of two pages: the job is done and the
\* folder gave one Queue event per entry.
C33_Witness ==
    /\ ar_pc = "done"
    /\ ar_recursive
    /\ ar_posts = <<"failed", "folder">>
    /\ Len(ar_listed) = MaxArPages * MaxArEntries
    /\ Len(ar_out) = Len(ar_listed)
    /\ ar_out[Len(ar_out)].kind = "Queue"

\* Stash id p comes before stash id q in a depth-first walk in document
\* order: p is above q, or p branches off to an earlier item.
PathBefore(p, q) ==
    \/ Len(p) < Len(q) /\ \A i \in 1..Len(p) : p[i] = q[i]
    \/ \E k \in 1..Len(p) :
          /\ k <= Len(q)
          /\ p[k] < q[k]
          /\ \A i \in 1..(k - 1) : p[i] = q[i]

C35_TweetEvents ==
    /\ \A t \in 1..Len(ti_seen) :
         LET tweet == ti_seen[t]
             evs == SelectSeq(ti_out, LAMBDA ev : ev.tweet = t)
             excluded == \/ ~ti_options.retweets /\ tweet.retweet
                         \/ ~ti_options.replies /\ tweet.reply
                         \/ ~ti_options.quoted /\ tweet.quoted
             handled == t < Len(ti_seen) \/ ti_pc # "urls"
         IN /\ (excluded \/ tweet.files = 0) => evs = <<>>
            /\ ~(excluded \/ tweet.files = 0) =>
                 /\ Len(evs) >= 1
                 /\ evs[1].kind = "Directory"
                 /\ \A i \in 2..Len(evs) :
                      /\ evs[i].kind = "Url"
                      /\ evs[i].num = i - 1
                      /\ evs[i].file = i - 1
                 /\ Len(evs) <= 1 + tweet.files
                 /\ handled => Len(evs) = 1 + tweet.files
    /\ \A i \in 1..Len(ti_out) :
         \A j \in 1..Len(ti_out) :
            i < j => ti_out[i].tweet <= ti_out[j].tweet

\* With quoted tweets excluded, a quoted tweet with files was passed over
\* and the tweet after it gave its Directory and its Url events.
C35_Witness ==
    /\ ti_pc = "done"
    /\ ~ti_options.quoted
    /\ Len(ti_seen) = 2
    /\ ti_seen[1].quoted /\ ti_seen[1].files = MaxFiles
    /\ ti_seen[2].files = MaxFiles
    /\ Len(ti_out) = 1 + MaxFiles
    /\ ti_out[Len(ti_out)].num = MaxFiles

RECURSIVE NsFold(_, _)
NsFold(tags, files) ==
    IF tags = <<>> THEN {}
    ELSE LET last == tags[Len(tags)]
             items == IF last.neg THEN files["index"] \ files[last.name]
                      ELSE files[last.name]
         IN NsCombine(NsFold(SubSeq(tags, 1, Len(tags) - 1), files), items)

\* C37: the list a search returns does not depend on the order of its
\* terms: every permutation of the terms yields the same descending list
\* of identifiers, also when an intermediate combination is empty.
C37_OrderIndependent ==
    ns_pc = "done" =>
        /\ ns_return = SortedDesc(NsFold(ns_tags, ns_files))
        /\ \A p \in Permutations(1..Len(ns_tags)) :
              SortedDesc(NsFold([i \in 1..Len(ns_tags) |-> ns_tags[p[i]]],
                                ns_files)) = ns_return

\* C38: skip(n) reports honestly.  When skip(n) returned m, the
\* enumeration that follows leaves out exactly the first m items it would
\* emit without the skip: Aryion returns 0 in recursive mode and leaves
\* out nothing, Sankaku always returns 0, and a DeviantArt gallery or
\* favourites extractor that returned n leaves out n items, in folder mode
\* too.
C38_SkipHonest ==
    /\ LET m == IF sp_skipped = NoSkip THEN 0 ELSE sp_skipped
       IN /\ (sp_site = "sankaku" /\ sp_skipped # NoSkip) => sp_skipped = 0
          /\ \A i \in 1..Len(sp_out) : sp_out[i].item = i + m
    /\ LET m == IF ar_skipped = NoSkip THEN 0 ELSE ar_skipped
       IN /\ (ar_recursive /\ ar_skipped # NoSkip) => ar_skipped = 0
          /\ \A i \in 1..Len(ar_out) : ar_out[i].post > m
          /\ ar_pc \in {"posts", "url", "folder", "queue", "done"} =>
                ar_pos > m
          /\ ar_pc = "done" =>
                \A p \in (m + 1)..Len(ar_posts) :
                    ar_posts[p] = "file" =>
                        \E i \in 1..Len(ar_out) : ar_out[i].post = p

\* C39: producing a later event leaves the metadata of every delivered
\* event unchanged: the mapping of each Directory, Url and Queue event
\* still holds what it held when the event was handed to the consumer.
C39_DeliveredUnchanged ==
    \A i \in 1..Len(al_out) : al_heap[al_out[i].object] = al_out[i].seen

=============================================================================
